---- MODULE Spec2Model ----
(***************************************************************************)
(* Skill aggregation (SkillExtractor.aggregate_skills) and gap analysis    *)
(* (GapAnalyzer.analyze_gaps) of the skill-profile service.                *)
(*                                                                         *)
(* Numbers.  Proficiencies, confidences, frequencies and gaps are Python   *)
(* floats that the program's producers round to two decimals.  They are    *)
(* modelled as integers counting hundredths (0.75 is 75).  Level and       *)
(* source weights count tenths (2.0 is 20).  overall_readiness counts      *)
(* tenths of a percent (66.7 is 667).  Quotients are kept as exact         *)
(* fractions <<numerator, denominator>> until the code rounds them.        *)
(*                                                                         *)
(* Rounding.  round() rounds the binary float, which lies a little above   *)
(* or below the decimal it stands for.  Away from a tie that error cannot  *)
(* change the result; at an exact decimal tie (57.5 hundredths) the code   *)
(* returns either neighbour (round(0.575, 2) is 0.57, round(66.65, 1) is   *)
(* 66.7), so PyRound yields both and the operations choose among them.     *)
(* The threshold comparisons of analyze_gaps are exact on the value sets   *)
(* used here (0.8 - 0.3 > 0.5 and 0.6 - 0.3 > 0.3 are False in floats).   *)
(***************************************************************************)
EXTENDS Integers, Sequences, FiniteSets, TLC

VARIABLES
    user_skills,          \* analyze_gaps argument: skill -> [proficiency]
    market_requirements,  \* analyze_gaps argument: dict in insertion order
    gap_result,           \* value returned by the last analyze_gaps call
    skill_sources,        \* aggregate_skills argument: list of source dicts
    aggregated,           \* value returned by aggregate_skills(skill_sources)
    source_record,        \* argument of a proficiency estimator
    estimate,             \* (proficiency, confidence) the estimator returned
    SKILL_SYNONYMS,       \* class attribute SkillExtractor.SKILL_SYNONYMS
    extractors,           \* the SkillExtractor instances, in construction order
    request_text,         \* text of a request, as the phrases it is made of
    text_result,          \* what the operation on the text returned
    user_skills_rows,     \* the rows of the table user_skills
    next_id,              \* the id AUTOINCREMENT gives the next inserted row
    db_call,              \* the last request served on the table, its result
    fetched_jobs,         \* the job dicts a fetch returned, in order
    produced,             \* the market requirement table a producer returned
    connections,          \* the requests in flight, each on its own connection
    reserved_by           \* the connection whose transaction holds the write lock

vars == <<user_skills, market_requirements, gap_result,
          skill_sources, aggregated, source_record, estimate,
          SKILL_SYNONYMS, extractors, request_text, text_result,
          user_skills_rows, next_id, db_call, fetched_jobs, produced,
          connections, reserved_by>>

gapVars == <<user_skills, market_requirements, gap_result>>
aggVars == <<skill_sources, aggregated>>
estVars == <<source_record, estimate>>
textVars == <<SKILL_SYNONYMS, extractors, request_text, text_result>>
dbVars == <<user_skills_rows, next_id, db_call>>
marketVars == <<fetched_jobs, produced>>
concVars == <<connections, reserved_by>>

\* the variables an operation of one component leaves alone
notGapVars == <<aggVars, estVars, textVars, dbVars, marketVars, concVars>>
notAggVars == <<gapVars, estVars, textVars, dbVars, marketVars, concVars>>
notEstVars == <<gapVars, aggVars, textVars, dbVars, marketVars, concVars>>
notTextVars == <<gapVars, aggVars, estVars, dbVars, marketVars, concVars>>
notDbVars == <<gapVars, aggVars, estVars, textVars, marketVars, concVars>>
notMarketVars == <<gapVars, aggVars, estVars, textVars, dbVars, concVars>>
notConcVars == <<gapVars, aggVars, estVars, textVars, marketVars, db_call>>

NoResult == [none |-> TRUE]

\* the connections of the requests that run side by side
MaxConnections == 2

ConnIds == 1..MaxConnections

NoConnection == 0

\* a connection no request has opened yet
Idle ==
    [op |-> "idle", pc |-> "idle", user_id |-> 0, todo |-> <<>>,
     sources |-> <<>>, existing |-> {}, pending |-> {}]

(***************************************************************************)
(* Arithmetic helpers                                                      *)
(***************************************************************************)
Min(a, b) == IF a <= b THEN a ELSE b

Max(a, b) == IF a >= b THEN a ELSE b

Abs(a) == IF a < 0 THEN 0 - a ELSE a

RECURSIVE Gcd(_, _)
Gcd(a, b) == IF b = 0 THEN a ELSE Gcd(b, a % b)

\* a fraction in lowest terms, denominator positive
Frac(n, d) ==
    LET g == Gcd(Abs(n), d)
    IN  IF g = 0 THEN <<0, 1>> ELSE <<n \div g, d \div g>>

FracAdd(x, y) == Frac(x[1] * y[2] + y[1] * x[2], x[2] * y[2])

\* Python round(): the integers the quotient n/d (d > 0) can be rounded to,
\* the nearest one, or both neighbours of an exact tie
PyRound(n, d) ==
    LET q == n \div d
        r == n % d
    IN  IF 2 * r < d THEN {q}
        ELSE IF 2 * r > d THEN {q + 1}
        ELSE {q, q + 1}

(***************************************************************************)
(* GapAnalyzer                                                             *)
(***************************************************************************)
GapSkills == {"python", "sql", "docker"}

RequirementLevels == {"critical", "important", "emerging", "optional"}

FrequencyValues == {0, 29, 85}

NeedValues == {0, 60, 80}

UserProficiencyValues == {30, 60, 90}

MaxMarket == 2

CriticalGapThreshold == 50

ImportantGapThreshold == 30

CriticalMultiplier == 20

ImportantMultiplier == 15

EmergingMultiplier == 12

\* a skill the user lacks given the lowest proficiency the user has
UserProfOrLowest(us, skill) ==
    IF skill \in DOMAIN us THEN us[skill].proficiency
    ELSE IF DOMAIN us = {} THEN 0
    ELSE CHOOSE p \in {us[s].proficiency : s \in DOMAIN us} :
            \A s \in DOMAIN us : p <= us[s].proficiency

\* user_skills.get(skill, {}).get('proficiency', 0.0)
UserProf(us, skill) ==
    IF skill \in DOMAIN us THEN us[skill].proficiency ELSE 0

\* int(frequency * 100): the float product of 0.29, 0.57 and 0.58 with 100
\* falls just below the integer, and int() truncates.
ImpactPct(frequency) ==
    IF frequency \in {29, 57, 58} THEN frequency - 1 ELSE frequency

\* Categorize with the IMPORTANT rule tested before the CRITICAL rule
CategorizeImportantFirst(gap_size, level) ==
    IF gap_size > 30 /\ level \in {"critical", "important"} THEN "IMPORTANT"
    ELSE IF gap_size > 50 /\ level = "critical" THEN "CRITICAL"
    ELSE IF level = "emerging" /\ gap_size > 0 THEN "EMERGING"
    ELSE IF gap_size <= 0 THEN "STRENGTH"
    ELSE "NONE"

\* Categorize with a plain else as the last branch, so that every skill the
\* gap rules leave out is a strength
CategorizeElseStrength(gap_size, level) ==
    IF gap_size > 50 /\ level = "critical" THEN "CRITICAL"
    ELSE IF gap_size > 30 /\ level \in {"critical", "important"} THEN "IMPORTANT"
    ELSE IF level = "emerging" /\ gap_size > 0 THEN "EMERGING"
    ELSE "STRENGTH"

\* the if/elif chain: the priority of one market skill, "NONE" when no
\* branch is taken
Categorize(gap_size, level) ==
    IF gap_size > CriticalGapThreshold /\ level = "critical" THEN "CRITICAL"
    ELSE IF gap_size > ImportantGapThreshold /\ level \in {"critical", "important"}
         THEN "IMPORTANT"
    ELSE IF level = "emerging" /\ gap_size > 0 THEN "EMERGING"
    ELSE IF gap_size <= 0 THEN "STRENGTH"
    ELSE "NONE"

\* gap_info of one market entry, with the fields its branch adds
GapInfo(us, m) ==
    LET user_prof == UserProf(us, m.skill)
        market_need == m.avg_proficiency_needed
        gap_size == market_need - user_prof
        priority == Categorize(gap_size, m.requirement_level)
        base == [skill |-> m.skill,
                 user_proficiency |-> user_prof,
                 market_requirement |-> market_need,
                 gap |-> gap_size,
                 market_frequency |-> m.frequency,
                 requirement_level |-> m.requirement_level,
                 priority |-> priority]
    IN  IF priority = "STRENGTH"
        THEN base @@ [advantage |-> Abs(gap_size)]
        ELSE base @@ [impact |-> ImpactPct(m.frequency)]

\* Bucket with every rule tested by an independent if, not an elif chain
RECURSIVE BucketIndependentIfs(_, _, _)
BucketIndependentIfs(us, market, priority) ==
    IF market = <<>> THEN <<>>
    ELSE LET m == Head(market)
             g == m.avg_proficiency_needed - UserProf(us, m.skill)
             l == m.requirement_level
             taken == \/ priority = "CRITICAL" /\ g > 50 /\ l = "critical"
                      \/ priority = "IMPORTANT" /\ g > 30 /\ l \in {"critical", "important"}
                      \/ priority = "EMERGING" /\ l = "emerging" /\ g > 0
                      \/ priority = "STRENGTH" /\ g <= 0
             info == [GapInfo(us, m) EXCEPT !.priority = priority]
             rest == BucketIndependentIfs(us, Tail(market), priority)
         IN  IF taken THEN <<info>> \o rest ELSE rest

\* the for loop: the gap_info records appended to the list of one priority,
\* in market iteration order
RECURSIVE Bucket(_, _, _)
Bucket(us, market, priority) ==
    IF market = <<>> THEN <<>>
    ELSE LET info == GapInfo(us, Head(market))
             rest == Bucket(us, Tail(market), priority)
         IN  IF info.priority = priority THEN <<info>> \o rest ELSE rest

\* list.sort(key=lambda x: x['gap'], reverse=True): stable, descending
RECURSIVE InsertByGap(_, _)
InsertByGap(x, sorted) ==
    IF sorted = <<>> THEN <<x>>
    ELSE IF Head(sorted).gap >= x.gap
         THEN <<Head(sorted)>> \o InsertByGap(x, Tail(sorted))
         ELSE <<x>> \o sorted

\* the lists left in the order the market loop filled them
KeepLoopOrder(list) == list

RECURSIVE SortByGapDesc(_)
SortByGapDesc(list) ==
    IF list = <<>> THEN <<>>
    ELSE InsertByGap(list[Len(list)], SortByGapDesc(SubSeq(list, 1, Len(list) - 1)))

\* LevelMultiplier without the 'emerging' branch
LevelMultiplierNoEmerging(level) ==
    IF level = "critical" THEN 20
    ELSE IF level = "important" THEN 15
    ELSE 10

LevelMultiplier(level) ==
    IF level = "critical" THEN CriticalMultiplier
    ELSE IF level = "important" THEN ImportantMultiplier
    ELSE IF level = "emerging" THEN EmergingMultiplier
    ELSE 10

\* weight of one market entry, in thousandths
Weight(m) == m.frequency * LevelMultiplier(m.requirement_level)

\* Achievement without the cap at 1.0
AchievementUncapped(us, m) ==
    IF m.avg_proficiency_needed > 0
    THEN Frac(UserProf(us, m.skill), m.avg_proficiency_needed)
    ELSE <<1, 1>>

\* Achievement as the closeness of the proficiency to the need, which falls
\* again above the need
AchievementByCloseness(us, m) ==
    IF m.avg_proficiency_needed > 0
    THEN IF UserProf(us, m.skill) >= m.avg_proficiency_needed
         THEN Frac(m.avg_proficiency_needed, UserProf(us, m.skill))
         ELSE Frac(UserProf(us, m.skill), m.avg_proficiency_needed)
    ELSE <<1, 1>>

\* min(user_prof / market_need, 1.0) if market_need > 0 else 1.0
Achievement(us, m) ==
    IF m.avg_proficiency_needed > 0
    THEN IF UserProf(us, m.skill) >= m.avg_proficiency_needed
         THEN <<1, 1>>
         ELSE Frac(UserProf(us, m.skill), m.avg_proficiency_needed)
    ELSE <<1, 1>>

RECURSIVE TotalWeight(_)
TotalWeight(market) ==
    IF market = <<>> THEN 0
    ELSE Weight(Head(market)) + TotalWeight(Tail(market))

RECURSIVE AchievedWeight(_, _)
AchievedWeight(us, market) ==
    IF market = <<>> THEN <<0, 1>>
    ELSE LET a == Achievement(us, Head(market))
         IN  FracAdd(Frac(Weight(Head(market)) * a[1], a[2]),
                     AchievedWeight(us, Tail(market)))

\* _calculate_readiness that treats an empty market as fully met
_calculate_readiness_vacuous(us, market) ==
    LET total_weight == TotalWeight(market)
        achieved_weight == AchievedWeight(us, market)
    IN  IF total_weight > 0
        THEN LET ratio == Frac(achieved_weight[1],
                               achieved_weight[2] * total_weight)
             IN  PyRound(1000 * ratio[1], ratio[2])
        ELSE {1000}

\* the values overall readiness can take, in tenths of a percent
_calculate_readiness(us, market) ==
    IF market = <<>> THEN {0}
    ELSE LET total_weight == TotalWeight(market)
             achieved_weight == AchievedWeight(us, market)
         IN  IF total_weight > 0
             THEN LET ratio == Frac(achieved_weight[1],
                                    achieved_weight[2] * total_weight)
                  IN  PyRound(1000 * ratio[1], ratio[2])
             ELSE {0}

_interpret_readiness(readiness) ==
    IF readiness >= 900 THEN "Excellent"
    ELSE IF readiness >= 750 THEN "Good"
    ELSE IF readiness >= 600 THEN "Fair"
    ELSE IF readiness >= 450 THEN "Developing"
    ELSE "Early stage"

RECURSIVE SkillNames(_)
SkillNames(list) ==
    IF list = <<>> THEN <<>>
    ELSE <<Head(list).skill>> \o SkillNames(Tail(list))

analyze_gaps(us, market) ==
    LET critical_gaps == SortByGapDesc(Bucket(us, market, "CRITICAL"))
        important_gaps == SortByGapDesc(Bucket(us, market, "IMPORTANT"))
        emerging_gaps == SortByGapDesc(Bucket(us, market, "EMERGING"))
        strengths == Bucket(us, market, "STRENGTH")
    IN  {[critical_gaps |-> critical_gaps,
         important_gaps |-> important_gaps,
         emerging_gaps |-> emerging_gaps,
         strengths |-> strengths,
         overall_readiness |-> readiness,
         summary |->
            [total_gaps |-> Len(critical_gaps) + Len(important_gaps) + Len(emerging_gaps),
             critical_gap_count |-> Len(critical_gaps),
             important_gap_count |-> Len(important_gaps),
             emerging_gap_count |-> Len(emerging_gaps),
             strength_count |-> Len(strengths),
             overall_readiness_pct |-> readiness,
             interpretation |-> _interpret_readiness(readiness),
             top_3_priorities |-> SkillNames(SubSeq(critical_gaps, 1, Min(3, Len(critical_gaps))))]]
         : readiness \in _calculate_readiness(us, market)}

MarketSkills(market) == {market[i].skill : i \in 1..Len(market)}

\* the caller stores one more skill in the user's profile
SetUserSkill ==
    /\ gap_result = NoResult
    /\ \E s \in GapSkills \ DOMAIN user_skills, p \in UserProficiencyValues :
          user_skills' = user_skills @@ (s :> [proficiency |-> p])
    /\ UNCHANGED <<market_requirements, gap_result, notGapVars>>

\* the caller adds one more entry to the market requirement table
AddMarketSkill ==
    /\ gap_result = NoResult
    /\ Len(market_requirements) < MaxMarket
    /\ \E s \in GapSkills \ MarketSkills(market_requirements),
          f \in FrequencyValues, l \in RequirementLevels, n \in NeedValues :
          market_requirements' = Append(market_requirements,
              [skill |-> s, frequency |-> f, requirement_level |-> l,
               avg_proficiency_needed |-> n])
    /\ UNCHANGED <<user_skills, gap_result, notGapVars>>

AnalyzeGaps ==
    /\ gap_result = NoResult
    /\ gap_result' \in analyze_gaps(user_skills, market_requirements)
    /\ UNCHANGED <<user_skills, market_requirements, notGapVars>>

\* the class attribute as the class body defines it, in insertion order
DefaultSynonyms ==
    <<[canonical |-> "javascript", variants |-> <<"js">>],
      [canonical |-> "python", variants |-> <<"py", "python3">>],
      [canonical |-> "postgresql", variants |-> <<"postgres", "psql">>],
      [canonical |-> "machine learning", variants |-> <<"ml">>],
      [canonical |-> "ci/cd", variants |-> <<"cicd", "ci cd", "ci-cd">>],
      [canonical |-> "node", variants |-> <<"nodejs", "node.js">>],
      [canonical |-> "scikit-learn", variants |-> <<"sklearn", "scikit learn">>],
      [canonical |-> ".net", variants |-> <<"dotnet", "dot net">>],
      [canonical |-> "c++", variants |-> <<"cpp", "c plus plus">>],
      [canonical |-> "c#", variants |-> <<"csharp", "c sharp">>]>>

Init ==
    /\ user_skills = <<>>
    /\ market_requirements = <<>>
    /\ gap_result = NoResult
    /\ skill_sources = <<>>
    /\ aggregated = NoResult
    /\ source_record = NoResult
    /\ estimate = NoResult
    /\ SKILL_SYNONYMS = DefaultSynonyms
    /\ extractors = <<>>
    /\ request_text = <<>>
    /\ text_result = NoResult
    /\ user_skills_rows = {}
    /\ next_id = 1
    /\ db_call = [seq |-> 0]
    /\ fetched_jobs = <<>>
    /\ produced = NoResult
    /\ connections = [c \in ConnIds |-> Idle]
    /\ reserved_by = NoConnection

GapNext == SetUserSkill \/ AddMarketSkill \/ AnalyzeGaps

GapSpec == Init /\ [][GapNext]_vars

\* Markets long enough to rank: up to MaxRanked skills, each with a need
\* that a user without skills misses by the whole amount.
RankSkills == {"python", "sql", "docker", "kubernetes"}

RankLevels == {"critical", "important", "emerging"}

RankNeeds == {60, 80}

RankFrequencies == {85}

MaxRanked == 4

\* the caller adds one more entry to a market requirement table of a role
AddRankedSkill ==
    /\ gap_result = NoResult
    /\ Len(market_requirements) < MaxRanked
    /\ \E s \in RankSkills \ MarketSkills(market_requirements),
          f \in RankFrequencies, l \in RankLevels, n \in RankNeeds :
          market_requirements' = Append(market_requirements,
              [skill |-> s, frequency |-> f, requirement_level |-> l,
               avg_proficiency_needed |-> n])
    /\ UNCHANGED <<user_skills, gap_result, notGapVars>>

RankNext == AddRankedSkill \/ AnalyzeGaps

RankSpec == Init /\ [][RankNext]_vars

(***************************************************************************)
(* SkillExtractor.aggregate_skills                                         *)
(***************************************************************************)
AggSkills == {"python", "sql"}

MaxSources == 3

MaxObservations == 4

ExperienceWeight == 20

ProjectWeight == 15

CertificationWeight == 12

CourseWeight == 10

ResumeWeight == 13

UnknownWeight == 10

DefaultProficiency == 50

DefaultConfidence == 50

FrequencyBoostStep == 5

FrequencyBoostCap == 15

CountBoostStep == 10

CountBoostCap == 20

ProficiencyCap == 100

ConfidenceCap == 95

\* a (proficiency, confidence) tuple, as the estimators return it
TupleValue(p, c) ==
    [shape |-> "tuple", keys |-> {"proficiency", "confidence"},
     proficiency |-> p, confidence |-> c]

\* a dict value holding only the key 'proficiency'
ProficiencyOnlyDict(p) ==
    [shape |-> "dict", keys |-> {"proficiency"}, proficiency |-> p, confidence |-> 0]

\* a value that is neither a tuple nor a dict (a bare number, a list)
OtherValue == [shape |-> "other", keys |-> {}, proficiency |-> 0, confidence |-> 0]

\* source_data.get('source', 'unknown')
SourceType(source_data) ==
    IF "source" \in DOMAIN source_data THEN source_data.source ELSE "unknown"

\* source_data.get('source_id', 0)
SourceId(source_data) ==
    IF "source_id" \in DOMAIN source_data THEN source_data.source_id ELSE 0

\* source_data.get('skills', {})
SourceSkills(source_data) ==
    IF "skills" \in DOMAIN source_data THEN source_data.skills ELSE <<>>

\* f"{source_type}:{source_id}"
SourceLabel(source_data) ==
    SourceType(source_data) \o ":" \o ToString(SourceId(source_data))

\* the proficiency and confidence read from one value of a skills map
ValueProficiency(values) ==
    IF values.shape = "tuple" THEN values.proficiency
    ELSE IF "proficiency" \in values.keys THEN values.proficiency
    ELSE DefaultProficiency

ValueConfidence(values) ==
    IF values.shape = "tuple" THEN values.confidence
    ELSE IF "confidence" \in values.keys THEN values.confidence
    ELSE DefaultConfidence

\* Observations that puts each new observation in front of the earlier ones
RECURSIVE ObservationsPrepended(_, _)
ObservationsPrepended(sources, skill) ==
    IF sources = <<>> THEN <<>>
    ELSE LET source_data == Head(sources)
             skills == SourceSkills(source_data)
             rest == ObservationsPrepended(Tail(sources), skill)
         IN  IF skill \in DOMAIN skills /\ skills[skill].shape \in {"tuple", "dict"}
             THEN rest \o <<[proficiency |-> ValueProficiency(skills[skill]),
                             confidence |-> ValueConfidence(skills[skill]),
                             source |-> SourceLabel(source_data),
                             source_type |-> SourceType(source_data)]>>
             ELSE rest

\* skill_data[skill] after the collecting loop: the observations of a skill
\* in the order of the sources; a value of another shape is skipped
RECURSIVE Observations(_, _)
Observations(sources, skill) ==
    IF sources = <<>> THEN <<>>
    ELSE LET source_data == Head(sources)
             skills == SourceSkills(source_data)
             rest == Observations(Tail(sources), skill)
         IN  IF skill \in DOMAIN skills /\ skills[skill].shape \in {"tuple", "dict"}
             THEN <<[proficiency |-> ValueProficiency(skills[skill]),
                     confidence |-> ValueConfidence(skills[skill]),
                     source |-> SourceLabel(source_data),
                     source_type |-> SourceType(source_data)]>> \o rest
             ELSE rest

\* SourceWeight with no entry for 'resume'
SourceWeightNoResume(source_type) ==
    IF source_type = "experience" THEN 20
    ELSE IF source_type = "project" THEN 15
    ELSE IF source_type = "certification" THEN 12
    ELSE 10

\* source_weights.get(st, 1.0), in tenths
SourceWeight(source_type) ==
    IF source_type = "experience" THEN ExperienceWeight
    ELSE IF source_type = "project" THEN ProjectWeight
    ELSE IF source_type = "certification" THEN CertificationWeight
    ELSE IF source_type = "course" THEN CourseWeight
    ELSE IF source_type = "resume" THEN ResumeWeight
    ELSE UnknownWeight

RECURSIVE TotalSourceWeight(_)
TotalSourceWeight(obs) ==
    IF obs = <<>> THEN 0
    ELSE SourceWeight(Head(obs).source_type) + TotalSourceWeight(Tail(obs))

RECURSIVE WeightedSum(_)
WeightedSum(obs) ==
    IF obs = <<>> THEN 0
    ELSE Head(obs).proficiency * SourceWeight(Head(obs).source_type)
            + WeightedSum(Tail(obs))

RECURSIVE PlainSum(_)
PlainSum(obs) ==
    IF obs = <<>> THEN 0 ELSE Head(obs).proficiency + PlainSum(Tail(obs))

RECURSIVE ConfidenceSum(_)
ConfidenceSum(obs) ==
    IF obs = <<>> THEN 0 ELSE Head(obs).confidence + ConfidenceSum(Tail(obs))

\* WeightedProf whose numerator leaves the weights out
WeightedProfPlainNumerator(obs) ==
    Frac(10 * PlainSum(obs), TotalSourceWeight(obs))

\* sum(p * w) / total_weight, a fraction of hundredths
WeightedProf(obs) == Frac(WeightedSum(obs), TotalSourceWeight(obs))

FracMin(x, bound) == IF x[1] <= bound * x[2] THEN x ELSE <<bound, 1>>

\* the records aggregated[skill] can be, built from the observations of one
\* skill
AggregateOne(obs) ==
    LET weighted_prof == WeightedProf(obs)
        source_count == Len(obs)
        frequency_boost == Min(source_count * FrequencyBoostStep, FrequencyBoostCap)
        final_proficiency ==
            FracMin(FracAdd(weighted_prof, <<frequency_boost, 1>>), ProficiencyCap)
        avg_confidence == Frac(ConfidenceSum(obs), Len(obs))
        count_boost == Min(source_count * CountBoostStep, CountBoostCap)
        final_confidence ==
            FracMin(FracAdd(avg_confidence, <<count_boost, 1>>), ConfidenceCap)
    IN  {[proficiency |-> p,
          confidence |-> c,
          source_count |-> source_count,
          sources |-> [i \in 1..Len(obs) |-> obs[i].source]]
         : p \in PyRound(final_proficiency[1], final_proficiency[2]),
           c \in PyRound(final_confidence[1], final_confidence[2])}

\* the keys of skill_data: the skills with an observation
ObservedSkills(sources) ==
    {skill \in AggSkills : Observations(sources, skill) # <<>>}

\* the maps aggregate_skills can return
aggregate_skills(sources) ==
    LET skill_data == [skill \in AggSkills |-> Observations(sources, skill)]
        observed == {skill \in AggSkills : skill_data[skill] # <<>>}
        one == [skill \in observed |-> AggregateOne(skill_data[skill])]
    IN  {agg \in [observed -> UNION {one[skill] : skill \in observed}] :
            \A skill \in observed : agg[skill] \in one[skill]}

\* the 'source' and 'source_id' keys of a source dict, and a dict without
\* them
SourceHeaders ==
    {[source |-> "course", source_id |-> 4],
     [source |-> "experience", source_id |-> 1],
     [source |-> "github", source_id |-> 6],
     <<>>}

PythonValues ==
    {TupleValue(60, 70), TupleValue(0 - 50, 0 - 20), TupleValue(150, 150),
     ProficiencyOnlyDict(90), OtherValue}

SqlValues == {TupleValue(40, 50)}

\* the skills maps of a source: each skill absent or with one of its values
SkillMaps(pythonValues, sqlValues) ==
    {<<>>}
    \cup {("python" :> v) : v \in pythonValues}
    \cup {("sql" :> v) : v \in sqlValues}
    \cup {("python" :> v) @@ ("sql" :> w) : v \in pythonValues, w \in sqlValues}

\* single-skill sources of every kind the weights name, with valid pairs
DeepHeaders ==
    {[source |-> "experience", source_id |-> 1],
     [source |-> "project", source_id |-> 2],
     [source |-> "resume", source_id |-> 0],
     [source |-> "certification", source_id |-> 3],
     [source |-> "course", source_id |-> 4],
     [source |-> "github", source_id |-> 6]}

DeepValues == {TupleValue(40, 50), TupleValue(60, 70), TupleValue(90, 90)}

\* the caller appends one more source dict to all_skill_sources
AppendFrom(headers, maps, max) ==
    /\ aggregated = NoResult
    /\ Len(skill_sources) < max
    /\ \E h \in headers, m \in maps :
          skill_sources' = Append(skill_sources, h @@ [skills |-> m])
    /\ UNCHANGED <<aggregated, notAggVars>>

AppendSource == AppendFrom(SourceHeaders, SkillMaps(PythonValues, SqlValues), MaxSources)

\* a source dict that has no 'skills' key
AppendSourceWithoutSkills ==
    /\ aggregated = NoResult
    /\ Len(skill_sources) < MaxSources
    /\ \E h \in SourceHeaders : skill_sources' = Append(skill_sources, h)
    /\ UNCHANGED <<aggregated, notAggVars>>

AppendObservation ==
    AppendFrom(DeepHeaders, {("python" :> v) : v \in DeepValues}, MaxObservations)

Aggregate ==
    /\ aggregated = NoResult
    /\ aggregated' \in aggregate_skills(skill_sources)
    /\ UNCHANGED <<skill_sources, notAggVars>>

AggNext == AppendSource \/ AppendSourceWithoutSkills \/ Aggregate

AggSpec == Init /\ [][AggNext]_vars

DeepNext == AppendObservation \/ Aggregate

DeepSpec == Init /\ [][DeepNext]_vars

(***************************************************************************)
(* Text and regular expressions                                            *)
(*                                                                         *)
(* A text is a sequence of one-character strings.  A position counts the   *)
(* characters before it, 0..Len(text).  A compiled pattern is a sequence   *)
(* of items; running it from a set of positions gives the set of           *)
(* positions where a match can end, which covers the backtracking of       *)
(* re.search.                                                              *)
(***************************************************************************)
Letters ==
    {"a", "b", "c", "d", "e", "f", "g", "h", "i", "j", "k", "l", "m",
     "n", "o", "p", "q", "r", "s", "t", "u", "v", "w", "x", "y", "z"}

Digits == {"0", "1", "2", "3", "4", "5", "6", "7", "8", "9"}

Capitals == {"A", "D", "E", "H", "I", "P", "S", "W"}

\* \w on lower-cased text
WordChars == Letters \cup Digits \cup {"_"}

\* \s
Whitespace == {" ", "\n"}

Punctuation == {"+", "#", ".", "/", "-", ",", ":", ";", "(", ")", "[", "]", "&", "|"}

Alphabet == WordChars \cup Capitals \cup Whitespace \cup Punctuation

\* str.lower() of one character
LowerChar(c) ==
    CASE c = "A" -> "a"
      [] c = "D" -> "d"
      [] c = "E" -> "e"
      [] c = "H" -> "h"
      [] c = "I" -> "i"
      [] c = "P" -> "p"
      [] c = "S" -> "s"
      [] c = "W" -> "w"
      [] OTHER -> c

\* the sequence with the same elements as a function on 1..n
AsSequence(f) == f \o <<>>

\* the function with the same values, computed once
AsTable(f) == f @@ <<>>

LowerText(t) == AsSequence([i \in 1..Len(t) |-> LowerChar(t[i])])

\* \w, whatever the case of the letter
WordLike == WordChars \cup Capitals

\* \b: exactly one side of the position is a word character
AtBoundary(t, p) ==
    (p > 0 /\ t[p] \in WordLike) # (p < Len(t) /\ t[p + 1] \in WordLike)

Boundary == [kind |-> "boundary"]

One(chars) == [kind |-> "one", chars |-> chars]

Optional(chars) == [kind |-> "optional", chars |-> chars]

Star(chars) == [kind |-> "star", chars |-> chars]

Plus(chars) == [kind |-> "plus", chars |-> chars]

UpTo(chars, max) == [kind |-> "upto", chars |-> chars, max |-> max]

\* positions one character of the set further
Advance(t, from, chars) ==
    {p + 1 : p \in {q \in from : q < Len(t) /\ t[q + 1] \in chars}}

\* positions reached from one position over at most max characters of the set
RECURSIVE Reach(_, _, _, _)
Reach(t, p, chars, max) ==
    IF max > 0 /\ p < Len(t) /\ t[p + 1] \in chars
    THEN {p} \cup Reach(t, p + 1, chars, max - 1)
    ELSE {p}

\* positions after one item, from a set of positions
After(item, t, from) ==
    CASE item.kind = "boundary" -> {p \in from : AtBoundary(t, p)}
      [] item.kind = "one" -> Advance(t, from, item.chars)
      [] item.kind = "optional" -> from \cup Advance(t, from, item.chars)
      [] item.kind = "star" ->
            UNION {Reach(t, p, item.chars, Len(t)) : p \in from}
      [] item.kind = "plus" ->
            UNION {Reach(t, p, item.chars, Len(t)) : p \in Advance(t, from, item.chars)}
      [] item.kind = "upto" ->
            UNION {Reach(t, p, item.chars, item.max) : p \in from}

RECURSIVE Run(_, _, _)
Run(items, t, from) ==
    IF items = <<>> \/ from = {} THEN from
    ELSE Run(Tail(items), t, After(Head(items), t, from))

\* the positions where a match that starts at p can end
MatchEnds(items, t, p) == Run(items, t, {p})

\* re.search(pattern, t) finds a match: one that starts at some position
Search(items, t) == Run(items, t, 0..Len(t)) # {}

\* the literal string as items
Literal(str) == AsSequence([i \in 1..Len(str) |-> One({str[i]})])

\* rf'\b{re.escape(str)}\b'
WholeWord(str) == <<Boundary>> \o Literal(str) \o <<Boundary>>

\* len(re.findall(pattern, t)) for a pattern that matches no empty string:
\* matches are taken left to right and do not overlap
RECURSIVE CountFrom(_, _, _)
CountFrom(items, t, p) ==
    IF p > Len(t) THEN 0
    ELSE LET ends == MatchEnds(items, t, p)
         IN  IF ends = {} THEN CountFrom(items, t, p + 1)
             ELSE 1 + CountFrom(items, t, CHOOSE e \in ends : \A f \in ends : f <= e)

FindCount(items, t) == CountFrom(items, t, 0)

\* t[p+1 .. p+Len(str)] = str
StartsAt(t, p, str) ==
    /\ p + Len(str) <= Len(t)
    /\ \A i \in 1..Len(str) : t[p + i] = str[i]

\* str.replace(old, new)
RECURSIVE Replace(_, _, _)
Replace(str, old, new) ==
    IF str = <<>> THEN <<>>
    ELSE IF StartsAt(str, 0, old)
         THEN new \o Replace(SubSeq(str, Len(old) + 1, Len(str)), old, new)
         ELSE <<Head(str)>> \o Replace(Tail(str), old, new)

\* "needle in str"
Contains(str, needle) ==
    \E p \in 0..Len(str) : StartsAt(str, p, needle)

\* the characters re.escape puts a backslash before
EscapedChars ==
    {" ", "-", ".", "+", "#", "&", "(", ")", "[", "]", "|", "\n"}

\* re.escape(str)
RECURSIVE Escape(_)
Escape(str) ==
    IF str = <<>> THEN <<>>
    ELSE (IF Head(str) \in EscapedChars THEN <<"\\", Head(str)>> ELSE <<Head(str)>>)
            \o Escape(Tail(str))

\* the characters of a class body up to its closing bracket: \s is the
\* whitespace class, any other escaped character and an unescaped '[' stand
\* for themselves
RECURSIVE ClassChars(_)
ClassChars(src) ==
    IF src = <<>> \/ Head(src) = "]" THEN {}
    ELSE IF Head(src) = "\\"
         THEN (IF src[2] = "s" THEN Whitespace ELSE {src[2]})
                \cup ClassChars(SubSeq(src, 3, Len(src)))
         ELSE {Head(src)} \cup ClassChars(Tail(src))

\* length of a class body with its closing bracket
RECURSIVE ClassLen(_)
ClassLen(src) ==
    IF src = <<>> THEN 0
    ELSE IF Head(src) = "]" THEN 1
    ELSE IF Head(src) = "\\" THEN 2 + ClassLen(SubSeq(src, 3, Len(src)))
    ELSE 1 + ClassLen(Tail(src))

\* re.compile of a pattern source made of \b, escaped and plain characters,
\* '.', bracket classes and the quantifier '?'
RECURSIVE Compile(_)
Compile(src) ==
    IF src = <<>> THEN <<>>
    ELSE IF Head(src) = "\\" /\ src[2] = "b"
         THEN <<Boundary>> \o Compile(SubSeq(src, 3, Len(src)))
    ELSE LET atomLen == IF Head(src) = "\\" THEN 2
                        ELSE IF Head(src) = "[" THEN 1 + ClassLen(Tail(src))
                        ELSE 1
             chars == IF Head(src) = "\\"
                      THEN (IF src[2] = "s" THEN Whitespace ELSE {src[2]})
                      ELSE IF Head(src) = "[" THEN ClassChars(Tail(src))
                      ELSE IF Head(src) = "." THEN Alphabet \ {"\n"}
                      ELSE {Head(src)}
             quantified == atomLen < Len(src) /\ src[atomLen + 1] = "?"
             rest == SubSeq(src, atomLen + (IF quantified THEN 2 ELSE 1), Len(src))
         IN  <<IF quantified THEN Optional(chars) ELSE One(chars)>> \o Compile(rest)

\* the characters of each name and phrase of the model
Spell ==
    ("python" :> <<"p", "y", "t", "h", "o", "n">>) @@
    ("c" :> <<"c">>) @@
    ("c++" :> <<"c", "+", "+">>) @@
    ("c#" :> <<"c", "#">>) @@
    (".net" :> <<".", "n", "e", "t">>) @@
    ("dotnet" :> <<"d", "o", "t", "n", "e", "t">>) @@
    ("ci/cd" :> <<"c", "i", "/", "c", "d">>) @@
    ("machine learning" :>
        <<"m", "a", "c", "h", "i", "n", "e", " ", "l", "e", "a", "r", "n",
          "i", "n", "g">>) @@
    ("ml" :> <<"m", "l">>) @@
    ("scikit-learn" :>
        <<"s", "c", "i", "k", "i", "t", "-", "l", "e", "a", "r", "n">>) @@
    ("sklearn" :> <<"s", "k", "l", "e", "a", "r", "n">>) @@
    ("node" :> <<"n", "o", "d", "e">>) @@
    ("node.js" :> <<"n", "o", "d", "e", ".", "j", "s">>) @@
    ("nodejs" :> <<"n", "o", "d", "e", "j", "s">>) @@
    ("javascript" :> <<"j", "a", "v", "a", "s", "c", "r", "i", "p", "t">>) @@
    ("postgresql" :> <<"p", "o", "s", "t", "g", "r", "e", "s", "q", "l">>) @@
    ("postgres" :> <<"p", "o", "s", "t", "g", "r", "e", "s">>) @@
    ("sql" :> <<"s", "q", "l">>) @@
    ("react" :> <<"r", "e", "a", "c", "t">>) @@
    ("aws" :> <<"a", "w", "s">>) @@
    ("problem solving" :>
        <<"p", "r", "o", "b", "l", "e", "m", " ", "s", "o", "l", "v", "i",
          "n", "g">>) @@
    ("js" :> <<"j", "s">>) @@
    ("py" :> <<"p", "y">>) @@
    ("python3" :> <<"p", "y", "t", "h", "o", "n", "3">>) @@
    ("psql" :> <<"p", "s", "q", "l">>) @@
    ("cicd" :> <<"c", "i", "c", "d">>) @@
    ("ci cd" :> <<"c", "i", " ", "c", "d">>) @@
    ("ci-cd" :> <<"c", "i", "-", "c", "d">>) @@
    ("scikit learn" :>
        <<"s", "c", "i", "k", "i", "t", " ", "l", "e", "a", "r", "n">>) @@
    ("dot net" :> <<"d", "o", "t", " ", "n", "e", "t">>) @@
    ("cpp" :> <<"c", "p", "p">>) @@
    ("c plus plus" :>
        <<"c", " ", "p", "l", "u", "s", " ", "p", "l", "u", "s">>) @@
    ("csharp" :> <<"c", "s", "h", "a", "r", "p">>) @@
    ("c sharp" :> <<"c", " ", "s", "h", "a", "r", "p">>) @@
    ("golang" :> <<"g", "o", "l", "a", "n", "g">>) @@
    ("sequel" :> <<"s", "e", "q", "u", "e", "l">>) @@
    ("snake" :> <<"s", "n", "a", "k", "e">>) @@
    ("go" :> <<"g", "o">>) @@
    ("java" :> <<"j", "a", "v", "a">>) @@
    ("php" :> <<"p", "h", "p">>) @@
    ("ruby" :> <<"r", "u", "b", "y">>) @@
    ("rust" :> <<"r", "u", "s", "t">>) @@
    ("swift" :> <<"s", "w", "i", "f", "t">>) @@
    ("kotlin" :> <<"k", "o", "t", "l", "i", "n">>) @@
    ("angular" :> <<"a", "n", "g", "u", "l", "a", "r">>) @@
    ("vue" :> <<"v", "u", "e">>) @@
    ("django" :> <<"d", "j", "a", "n", "g", "o">>) @@
    ("flask" :> <<"f", "l", "a", "s", "k">>) @@
    ("spring" :> <<"s", "p", "r", "i", "n", "g">>) @@
    ("rails" :> <<"r", "a", "i", "l", "s">>) @@
    ("laravel" :> <<"l", "a", "r", "a", "v", "e", "l">>) @@
    ("mysql" :> <<"m", "y", "s", "q", "l">>) @@
    ("mongodb" :> <<"m", "o", "n", "g", "o", "d", "b">>) @@
    ("redis" :> <<"r", "e", "d", "i", "s">>) @@
    ("elasticsearch" :>
        <<"e", "l", "a", "s", "t", "i", "c", "s", "e", "a", "r", "c", "h">>) @@
    ("dynamodb" :> <<"d", "y", "n", "a", "m", "o", "d", "b">>) @@
    ("cassandra" :> <<"c", "a", "s", "s", "a", "n", "d", "r", "a">>) @@
    ("sqlite" :> <<"s", "q", "l", "i", "t", "e">>) @@
    ("azure" :> <<"a", "z", "u", "r", "e">>) @@
    ("gcp" :> <<"g", "c", "p">>) @@
    ("google" :> <<"g", "o", "o", "g", "l", "e">>) @@
    ("cloud" :> <<"c", "l", "o", "u", "d">>) @@
    ("skill" :> <<"s", "k", "i", "l", "l">>) @@
    ("technologie" :>
        <<"t", "e", "c", "h", "n", "o", "l", "o", "g", "i", "e">>) @@
    ("tool" :> <<"t", "o", "o", "l">>) @@
    ("language" :> <<"l", "a", "n", "g", "u", "a", "g", "e">>) @@
    ("framework" :> <<"f", "r", "a", "m", "e", "w", "o", "r", "k">>) @@
    ("platform" :> <<"p", "l", "a", "t", "f", "o", "r", "m">>) @@
    ("expert" :> <<"e", "x", "p", "e", "r", "t">>) @@
    ("proficient" :> <<"p", "r", "o", "f", "i", "c", "i", "e", "n", "t">>) @@
    ("advanced" :> <<"a", "d", "v", "a", "n", "c", "e", "d">>) @@
    ("extensive" :> <<"e", "x", "t", "e", "n", "s", "i", "v", "e">>) @@
    ("strong" :> <<"s", "t", "r", "o", "n", "g">>) @@
    ("skilled" :> <<"s", "k", "i", "l", "l", "e", "d">>) @@
    ("lead" :> <<"l", "e", "a", "d">>) @@
    ("senior" :> <<"s", "e", "n", "i", "o", "r">>) @@
    ("required" :> <<"r", "e", "q", "u", "i", "r", "e", "d">>) @@
    ("must have" :> <<"m", "u", "s", "t", " ", "h", "a", "v", "e">>) @@
    ("essential" :> <<"e", "s", "s", "e", "n", "t", "i", "a", "l">>) @@
    ("mandatory" :> <<"m", "a", "n", "d", "a", "t", "o", "r", "y">>) @@
    ("needs" :> <<"n", "e", "e", "d", "s">>) @@
    ("requires" :> <<"r", "e", "q", "u", "i", "r", "e", "s">>) @@
    ("should have" :>
        <<"s", "h", "o", "u", "l", "d", " ", "h", "a", "v", "e">>) @@
    ("necessary" :> <<"n", "e", "c", "e", "s", "s", "a", "r", "y">>) @@
    ("preferred" :> <<"p", "r", "e", "f", "e", "r", "r", "e", "d">>) @@
    ("nice to have" :>
        <<"n", "i", "c", "e", " ", "t", "o", " ", "h", "a", "v", "e">>) @@
    ("bonus" :> <<"b", "o", "n", "u", "s">>) @@
    ("plus" :> <<"p", "l", "u", "s">>) @@
    ("desired" :> <<"d", "e", "s", "i", "r", "e", "d">>) @@
    ("ideal" :> <<"i", "d", "e", "a", "l">>) @@
    ("good to have" :>
        <<"g", "o", "o", "d", " ", "t", "o", " ", "h", "a", "v", "e">>) @@
    ("advantageous" :>
        <<"a", "d", "v", "a", "n", "t", "a", "g", "e", "o", "u", "s">>) @@
    ("deep" :> <<"d", "e", "e", "p">>) @@
    ("production" :> <<"p", "r", "o", "d", "u", "c", "t", "i", "o", "n">>) @@
    ("deployed" :> <<"d", "e", "p", "l", "o", "y", "e", "d">>) @@
    ("scalable" :> <<"s", "c", "a", "l", "a", "b", "l", "e">>) @@
    ("enterprise" :> <<"e", "n", "t", "e", "r", "p", "r", "i", "s", "e">>) @@
    ("large-scale" :>
        <<"l", "a", "r", "g", "e", "-", "s", "c", "a", "l", "e">>) @@
    ("year" :> <<"y", "e", "a", "r">>) @@
    ("machine-learning" :>
        <<"m", "a", "c", "h", "i", "n", "e", "-", "l", "e", "a", "r", "n",
          "i", "n", "g">>) @@
    ("Python" :> <<"P", "y", "t", "h", "o", "n">>) @@
    ("and" :> <<"a", "n", "d">>) @@
    ("skills: py, sql" :>
        <<"s", "k", "i", "l", "l", "s", ":", " ", "p", "y", ",", " ", "s",
          "q", "l">>) @@
    ("(js; psql)" :> <<"(", "j", "s", ";", " ", "p", "s", "q", "l", ")">>) @@
    ("we want one person who will join our good team" :>
        <<"w", "e", " ", "w", "a", "n", "t", " ", "o", "n", "e", " ", "p",
          "e", "r", "s", "o", "n", " ", "w", "h", "o", " ", "w", "i", "l",
          "l", " ", "j", "o", "i", "n", " ", "o", "u", "r", " ", "g", "o",
          "o", "d", " ", "t", "e", "a", "m">>) @@
    ("required: expert sql" :>
        <<"r", "e", "q", "u", "i", "r", "e", "d", ":", " ", "e", "x", "p",
          "e", "r", "t", " ", "s", "q", "l">>) @@
    ("required: expert sql bonus: sql" :>
        <<"r", "e", "q", "u", "i", "r", "e", "d", ":", " ", "e", "x", "p",
          "e", "r", "t", " ", "s", "q", "l", " ", "b", "o", "n", "u", "s",
          ":", " ", "s", "q", "l">>) @@
    ("must have c plus plus" :>
        <<"m", "u", "s", "t", " ", "h", "a", "v", "e", " ", "c", " ", "p",
          "l", "u", "s", " ", "p", "l", "u", "s">>) @@
    ("sql bonus: aws" :>
        <<"s", "q", "l", " ", "b", "o", "n", "u", "s", ":", " ", "a", "w",
          "s">>) @@
    ("5+ years of python in production" :>
        <<"5", "+", " ", "y", "e", "a", "r", "s", " ", "o", "f", " ", "p",
          "y", "t", "h", "o", "n", " ", "i", "n", " ", "p", "r", "o", "d",
          "u", "c", "t", "i", "o", "n">>) @@
    ("AI Engineer" :>
        <<"A", "I", " ", "E", "n", "g", "i", "n", "e", "e", "r">>) @@
    ("Data Scientist" :>
        <<"D", "a", "t", "a", " ", "S", "c", "i", "e", "n", "t", "i", "s",
          "t">>) @@
    ("Web Developer" :>
        <<"W", "e", "b", " ", "D", "e", "v", "e", "l", "o", "p", "e", "r">>) @@
    ("Healthcare Data Analyst" :>
        <<"H", "e", "a", "l", "t", "h", "c", "a", "r", "e", " ", "D", "a",
          "t", "a", " ", "A", "n", "a", "l", "y", "s", "t">>) @@
    ("ai" :> <<"a", "i">>) @@
    ("data scientist" :>
        <<"d", "a", "t", "a", " ", "s", "c", "i", "e", "n", "t", "i", "s",
          "t">>) @@
    ("data science" :>
        <<"d", "a", "t", "a", " ", "s", "c", "i", "e", "n", "c", "e">>) @@
    ("full stack" :> <<"f", "u", "l", "l", " ", "s", "t", "a", "c", "k">>) @@
    ("web" :> <<"w", "e", "b">>) @@
    ("developer" :> <<"d", "e", "v", "e", "l", "o", "p", "e", "r">>)

(***************************************************************************)
(* SkillExtractor: taxonomy, construction and extract_skills_from_text     *)
(*                                                                         *)
(* The taxonomy of the model is a part of TECHNICAL_SKILLS, SOFT_SKILLS    *)
(* and SKILL_SYNONYMS of the class.  Skills and synonyms are named by      *)
(* strings; Spell gives the characters of a name.                          *)
(***************************************************************************)
TECHNICAL_SKILLS ==
    {"python", "c", "c++", "c#", ".net", "dotnet", "ci/cd", "machine learning",
     "ml", "scikit-learn", "sklearn", "node", "node.js", "nodejs",
     "javascript", "postgresql", "postgres", "sql", "react", "aws"}

SOFT_SKILLS == {"problem solving"}


\* a constructor argument that is None or names no existing file
NoFile == [exists |-> FALSE]

\* the contents of custom skills files
CustomFiles ==
    {[exists |-> TRUE, skills |-> {"Golang"},
      synonyms |-> <<[canonical |-> "python", variants |-> <<"snake">>],
                     [canonical |-> "SQL", variants |-> <<"Sequel">>]>>]}

\* str.lower() of a name
LowerName(name) ==
    CASE name = "Golang" -> "golang"
      [] name = "Python" -> "python"
      [] name = "SQL" -> "sql"
      [] name = "Sequel" -> "sequel"
      [] OTHER -> name

Canonicals(synonyms) == {synonyms[i].canonical : i \in 1..Len(synonyms)}

\* lines 316-319: the class-level table after the constructor read the file;
\* a canonical it already holds is left alone
RECURSIVE AddCustomSynonyms(_, _)
AddCustomSynonyms(synonyms, custom) ==
    IF custom = <<>> THEN synonyms
    ELSE LET c == LowerName(Head(custom).canonical)
             vs == [i \in 1..Len(Head(custom).variants) |->
                        LowerName(Head(custom).variants[i])]
         IN  AddCustomSynonyms(
                IF c \in Canonicals(synonyms) THEN synonyms
                ELSE Append(synonyms, [canonical |-> c, variants |-> vs]),
                Tail(custom))

SynonymsAfterLoad(synonyms, file) ==
    IF file.exists THEN AddCustomSynonyms(synonyms, file.synonyms) ELSE synonyms

\* lines 324-327: variant -> canonical, a later entry overwriting an earlier
RECURSIVE BuildSynonymMap(_)
BuildSynonymMap(synonyms) ==
    IF synonyms = <<>> THEN <<>>
    ELSE LET last == synonyms[Len(synonyms)]
             own == [v \in {last.variants[i] : i \in 1..Len(last.variants)} |->
                        last.canonical]
         IN  own @@ BuildSynonymMap(SubSeq(synonyms, 1, Len(synonyms) - 1))

\* the instance __init__ builds, given the class-level table it leaves behind
NewExtractor(synonyms, file) ==
    [skills_list |->
        TECHNICAL_SKILLS \cup SOFT_SKILLS
            \cup (IF file.exists THEN {LowerName(s) : s \in file.skills} ELSE {}),
     synonym_map |-> BuildSynonymMap(synonyms)]

\* r'[\s\-_.]?'
FlexibleSeparator == <<"[", "\\", "s", "\\", "-", "_", ".", "]", "?">>

\* _compile_skill_patterns: the pattern source of one skill.  The second
\* replace also rewrites the '\-' inside the separator the first one put in.
SkillPatternSource(skill) ==
    LET escaped == Escape(LowerText(Spell[skill]))
        spaces == Replace(escaped, <<"\\", " ">>, FlexibleSeparator)
        hyphens == Replace(spaces, <<"\\", "-">>, FlexibleSeparator)
        flexible == Replace(hyphens, <<"\\", ".">>, FlexibleSeparator)
    IN  <<"\\", "b">> \o flexible \o <<"\\", "b">>

AllSkills ==
    TECHNICAL_SKILLS \cup SOFT_SKILLS
        \cup UNION {{LowerName(s) : s \in file.skills} : file \in CustomFiles}

\* self.skill_patterns, which depends on skills_list only
SkillPatterns ==
    AsTable([skill \in AllSkills |-> Compile(SkillPatternSource(skill))])

\* strip()
RECURSIVE Strip(_)
Strip(t) ==
    IF t = <<>> THEN t
    ELSE IF Head(t) \in Whitespace THEN Strip(Tail(t))
    ELSE IF t[Len(t)] \in Whitespace THEN Strip(SubSeq(t, 1, Len(t) - 1))
    ELSE t

\* re.sub(r'\s+', ' ', t)
RECURSIVE CollapseWhitespace(_)
CollapseWhitespace(t) ==
    IF t = <<>> THEN t
    ELSE IF Head(t) \in Whitespace
         THEN IF Len(t) > 1 /\ t[2] \in Whitespace
              THEN CollapseWhitespace(Tail(t))
              ELSE <<" ">> \o CollapseWhitespace(Tail(t))
         ELSE <<Head(t)>> \o CollapseWhitespace(Tail(t))

\* [\w\s\-+#./], the characters clean_text keeps
KeptChars == WordChars \cup Capitals \cup Whitespace \cup {"-", "+", "#", ".", "/"}

clean_text(t) ==
    LET separated ==
            AsSequence([i \in 1..Len(t) |-> IF t[i] = "|" THEN " " ELSE t[i]])
        collapsed == CollapseWhitespace(separated)
        kept == AsSequence([i \in 1..Len(collapsed) |->
                    IF collapsed[i] \in KeptChars THEN collapsed[i] ELSE " "])
    IN  Strip(kept)

\* the name whose spelling is the text, if there is one
NamesSpelled(names, t) == {n \in names : Spell[n] = t}

\* re.finditer over \b(alt1|alt2|...)tail: the group(1) alternatives of the
\* matches, taken left to right without overlap
RECURSIVE GroupsFrom(_, _, _)
GroupsFrom(alternatives, t, p) ==
    IF p > Len(t) THEN {}
    ELSE IF ~AtBoundary(t, p) THEN GroupsFrom(alternatives, t, p + 1)
    ELSE LET ends == AsSequence([i \in 1..Len(alternatives) |->
                        MatchEnds(alternatives[i].items, t, p)])
             hits == {i \in 1..Len(alternatives) : ends[i] # {}}
         IN  IF hits = {} THEN GroupsFrom(alternatives, t, p + 1)
             ELSE LET first == CHOOSE i \in hits : \A j \in hits : i <= j
                      end == CHOOSE e \in ends[first] : \A f \in ends[first] : f <= e
                  IN  {alternatives[first].name}
                        \cup GroupsFrom(alternatives, t,
                                        IF end > p THEN end ELSE p + 1)

\* \b(name1|name2|...)tail as one pattern for each name
Alternatives(names, tail) ==
    AsSequence([i \in 1..Len(names) |->
                    [name |-> names[i],
                     items |-> <<Boundary>> \o Literal(Spell[names[i]]) \o tail]])

VersionNames ==
    <<"python", "java", "php", "ruby", "node", "go", "rust", "swift", "kotlin">>

FrameworkNames ==
    <<"react", "angular", "vue", "django", "flask", "spring", "rails", "laravel">>

DatabaseNames ==
    <<"mysql", "postgresql", "mongodb", "redis", "elasticsearch", "dynamodb",
      "cassandra", "sqlite">>

VersionChars == Digits \cup {"."}

\* line 392: \b(python|java|...)\s*[\d.]+\b
VersionPatterns ==
    Alternatives(VersionNames, <<Star(Whitespace), Plus(VersionChars), Boundary>>)

\* line 397: \b(react|angular|...)\s*[\d.]*\b
FrameworkPatterns ==
    Alternatives(FrameworkNames, <<Star(Whitespace), Star(VersionChars), Boundary>>)

\* line 411: \b(mysql|postgresql|...)\s*[\d.]*\b
DatabasePatterns ==
    Alternatives(DatabaseNames, <<Star(Whitespace), Star(VersionChars), Boundary>>)

\* \s+\w+\b
CloudTail == <<Plus(Whitespace), Plus(WordChars), Boundary>>

\* line 402: \b(aws|azure|gcp|google\s+cloud)\s+\w+\b, each alternative named
\* by what lines 405-408 add for it
CloudPatterns ==
    Alternatives(<<"aws", "azure", "gcp">>, CloudTail)
        \o <<[name |-> "gcp",
              items |-> <<Boundary>> \o Literal(Spell["google"])
                            \o <<Plus(Whitespace)>> \o Literal(Spell["cloud"])
                            \o CloudTail]>>

\* split on the characters of a class
RECURSIVE Split(_, _)
Split(t, separators) ==
    IF \A i \in 1..Len(t) : t[i] \notin separators THEN <<t>>
    ELSE LET k == CHOOSE i \in 1..Len(t) :
                    t[i] \in separators /\ \A j \in 1..(i - 1) : t[j] \notin separators
         IN  <<SubSeq(t, 1, k - 1)>> \o Split(SubSeq(t, k + 1, Len(t)), separators)

\* step 7: the inner texts of r'\(([^)]+)\)', left to right
RECURSIVE Parenthesised(_)
Parenthesised(t) ==
    IF \A i \in 1..Len(t) : t[i] # "(" THEN <<>>
    ELSE LET open == CHOOSE i \in 1..Len(t) :
                        t[i] = "(" /\ \A j \in 1..(i - 1) : t[j] # "("
             closes == {i \in (open + 1)..Len(t) : t[i] = ")"}
         IN  IF closes = {} THEN <<>>
             ELSE LET close == CHOOSE i \in closes : \A j \in closes : i <= j
                  IN  IF close = open + 1
                      THEN Parenthesised(SubSeq(t, open + 1, Len(t)))
                      ELSE <<SubSeq(t, open + 1, close - 1)>>
                            \o Parenthesised(SubSeq(t, close + 1, Len(t)))

\* what one item of a list adds: itself if a skill, else its canonical name
ItemSkills(e, item) ==
    IF NamesSpelled(e.skills_list, item) # {}
    THEN NamesSpelled(e.skills_list, item)
    ELSE {e.synonym_map[v] : v \in NamesSpelled(DOMAIN e.synonym_map, item)}

RECURSIVE UnionOver(_, _)
UnionOver(f, n) == IF n = 0 THEN {} ELSE f[n] \cup UnionOver(f, n - 1)

ParenthesisSkills(e, t) ==
    LET inners == Parenthesised(t)
        perInner == [i \in 1..Len(inners) |->
            LET items == Split(inners[i], {",", ";", "/"})
                perItem == [k \in 1..Len(items) |->
                                ItemSkills(e, LowerText(Strip(items[k])))]
            IN  UnionOver(perItem, Len(items))]
    IN  UnionOver(perInner, Len(inners))

\* re.sub(r'\([^)]*\)', '', item)
RECURSIVE RemoveParenthesised(_)
RemoveParenthesised(t) ==
    IF \A i \in 1..Len(t) : t[i] # "(" THEN t
    ELSE LET open == CHOOSE i \in 1..Len(t) :
                        t[i] = "(" /\ \A j \in 1..(i - 1) : t[j] # "("
             closes == {i \in (open + 1)..Len(t) : t[i] = ")"}
         IN  IF closes = {} THEN t
             ELSE LET close == CHOOSE i \in closes : \A j \in closes : i <= j
                  IN  SubSeq(t, 1, open - 1)
                        \o RemoveParenthesised(SubSeq(t, close + 1, Len(t)))

\* (?:skills?|technologies?|tools?|languages?|frameworks?|platforms?)
SectionStems ==
    <<"skill", "technologie", "tool", "language", "framework", "platform">>

\* one keyword followed by \s*[:\-]?\s*
SectionPrefix(stem) ==
    Literal(Spell[stem])
        \o <<Optional({"s"}), Star(Whitespace), Optional({":", "-"}), Star(Whitespace)>>

SectionPrefixes ==
    AsSequence([i \in 1..Len(SectionStems) |-> SectionPrefix(SectionStems[i])])

\* step 8: the ([^\n]+) groups of the matches of skill_section_pattern from
\* position p on; a group runs to the end of its line
RECURSIVE SkillLines(_, _)
SkillLines(t, p) ==
    IF p >= Len(t) THEN <<>>
    ELSE LET ends == UNION {MatchEnds(SectionPrefixes[i], t, p) :
                                i \in 1..Len(SectionPrefixes)}
             starts == {e \in ends : e < Len(t) /\ t[e + 1] # "\n"}
         IN  IF starts = {} THEN SkillLines(t, p + 1)
             ELSE LET start == CHOOSE s \in starts : \A r \in starts : r <= s
                      breaks == {i \in (start + 1)..Len(t) : t[i] = "\n"}
                      stop == IF breaks = {} THEN Len(t)
                              ELSE (CHOOSE b \in breaks : \A c \in breaks : b <= c) - 1
                  IN  <<SubSeq(t, start + 1, stop)>> \o SkillLines(t, stop)

\* the items of the skill lines the code looks at: stripped, without
\* parenthesised parts, longer than 1 and shorter than 50 characters
RECURSIVE SectionItems(_)
SectionItems(lines) ==
    IF lines = <<>> THEN <<>>
    ELSE LET raw == Split(Head(lines), {",", ";", "|"})
             cleaned == AsSequence([k \in 1..Len(raw) |->
                            Strip(RemoveParenthesised(LowerText(Strip(raw[k]))))])
         IN  SelectSeq(cleaned, LAMBDA item : Len(item) > 1 /\ Len(item) < 50)
                \o SectionItems(Tail(lines))

\* lines 443-446: the skills that contain the item or lie inside it; the
\* loop adds the first of them in the iteration order of the set
RelatedSkills(e, item) ==
    {skill \in e.skills_list :
        Contains(item, Spell[skill]) \/ Contains(Spell[skill], item)}

\* lines 438-441 for every item of the skill lines
ExactSkills(e, items) ==
    UnionOver([k \in 1..Len(items) |-> ItemSkills(e, items[k])], Len(items))

\* lines 443-446 for every item of the skill lines
RelatedOf(e, items) ==
    AsSequence([k \in 1..Len(items) |-> RelatedSkills(e, items[k])])

\* the items for which the loop of line 443 finds a skill
Searching(related) == {k \in 1..Len(related) : related[k] # {}}

\* the iteration order of a Python set of strings differs from process to
\* process, so any related skill can be the first one the loop meets; within
\* one call the order is the same for every item
FirstRelated(skills_list, related, searching) ==
    {f \in [searching -> skills_list] :
        /\ \A k \in searching : f[k] \in related[k]
        /\ \A k, m \in searching :
              (f[k] \in related[m] /\ f[m] \in related[k]) => f[k] = f[m]}

ItemOutcomes(exact, firsts) == {exact \cup {f[k] : k \in DOMAIN f} : f \in firsts}

RelatedOutcomes(e, exact, related) ==
    ItemOutcomes(exact, FirstRelated(e.skills_list, related, Searching(related)))

OutcomesOfItems(e, items) ==
    RelatedOutcomes(e, ExactSkills(e, items), RelatedOf(e, items))

\* the skill sets step 8 can add
SectionOutcomes(e, t) == OutcomesOfItems(e, SectionItems(SkillLines(t, 0)))

\* rf'\b{re.escape(name)}\b' for each name
WordPatterns == AsTable([name \in DOMAIN Spell |-> WholeWord(Spell[name])])

\* the sets of skills extract_skills_from_text can return (it returns them
\* as a sorted list)
extract_skills_from_text(e, t) ==
    IF t = <<>> THEN {{}}
    ELSE LET text_lower == LowerText(t)
             text_cleaned == clean_text(text_lower)
             direct == {skill \in e.skills_list :
                          \/ Search(SkillPatterns[skill], text_cleaned)
                          \/ Search(SkillPatterns[skill], text_lower)}
             synonyms == {e.synonym_map[v] :
                            v \in {w \in DOMAIN e.synonym_map :
                                      Search(WordPatterns[w], text_cleaned)}}
             versions == GroupsFrom(VersionPatterns, text_cleaned, 0)
             frameworks == GroupsFrom(FrameworkPatterns, text_cleaned, 0)
             clouds == GroupsFrom(CloudPatterns, text_cleaned, 0)
             databases == GroupsFrom(DatabasePatterns, text_cleaned, 0)
             parenthesised == ParenthesisSkills(e, t)
             found == direct \cup synonyms \cup versions \cup frameworks \cup clouds
                        \cup databases \cup parenthesised
         IN  {found \cup section : section \in SectionOutcomes(e, text_lower)}

(***************************************************************************)
(* Python dicts with optional keys                                        *)
(***************************************************************************)
\* dict.get(key, default)
Get(data, key, default) == IF key \in DOMAIN data THEN data[key] ELSE default

\* an optional field: <<>> when the key is missing, <<value>> when present
Missing == <<>>

Present(values) == {<<v>> : v \in values}

\* the dict holding the key when the field is present
Field(key, field) == IF field = Missing THEN <<>> ELSE [k \in {key} |-> field[1]]

(***************************************************************************)
(* JobSkillAnalyzer                                                        *)
(***************************************************************************)
required_keywords ==
    <<"required", "must have", "essential", "mandatory",
      "needs", "requires", "should have", "necessary">>

preferred_keywords ==
    <<"preferred", "nice to have", "bonus", "plus",
      "desired", "ideal", "good to have", "advantageous">>

\* [:\s]
Separators == Whitespace \cup {":"}

\* $ without re.MULTILINE: the end of the text, or just before a final newline
AtEnd(t, q) == q = Len(t) \/ (q = Len(t) - 1 /\ t[Len(t)] = "\n")

\* the keyword starts at p and a separator follows it
KeywordAt(t, p, keyword) ==
    /\ StartsAt(t, p, keyword)
    /\ p + Len(keyword) < Len(t)
    /\ t[p + Len(keyword) + 1] \in Separators

\* the position after the separators that start at p
RECURSIVE SkipSeparators(_, _)
SkipSeparators(t, p) ==
    IF p < Len(t) /\ t[p + 1] \in Separators THEN SkipSeparators(t, p + 1) ELSE p

\* re.search(f"{keyword}[:\s]+(.*?)(?:{terminators}|$)", t, re.DOTALL):
\* no match gives the empty sequence, a match gives group(1) + " "
SectionOf(keyword, terminators, t) ==
    LET starts == {p \in 0..Len(t) : KeywordAt(t, p, Spell[keyword])}
    IN  IF starts = {} THEN <<>>
        ELSE LET start == CHOOSE p \in starts : \A q \in starts : p <= q
                 from == SkipSeparators(t, start + Len(Spell[keyword]))
                 stops == {q \in from..Len(t) :
                             \/ AtEnd(t, q)
                             \/ \E k \in 1..Len(terminators) :
                                   StartsAt(t, q, Spell[terminators[k]])}
                 stop == CHOOSE q \in stops : \A r \in stops : q <= r
             IN  SubSeq(t, from + 1, stop) \o <<" ">>

\* lines 46-57: the sections of the keywords that match, in list order
RECURSIVE Sections(_, _, _)
Sections(keywords, terminators, t) ==
    IF keywords = <<>> THEN <<>>
    ELSE SectionOf(Head(keywords), terminators, t)
            \o Sections(Tail(keywords), terminators, t)

\* re.findall(f".{{0,100}}{re.escape(skill)}.{{0,100}}", t): '.' matches no
\* newline, both repetitions are greedy
NotNewline == Alphabet \ {"\n"}

RECURSIVE ContextsFrom(_, _, _)
ContextsFrom(items, t, p) ==
    IF p > Len(t) THEN <<>>
    ELSE LET ends == MatchEnds(items, t, p)
         IN  IF ends = {} THEN ContextsFrom(items, t, p + 1)
             ELSE LET end == CHOOSE e \in ends : \A f \in ends : f <= e
                  IN  <<SubSeq(t, p + 1, end)>> \o ContextsFrom(items, t, end)

\* " ".join(matches)
RECURSIVE Join(_)
Join(parts) ==
    IF parts = <<>> THEN <<>>
    ELSE IF Len(parts) = 1 THEN parts[1]
    ELSE Head(parts) \o <<" ">> \o Join(Tail(parts))

DigitValue ==
    ("0" :> 0) @@ ("1" :> 1) @@ ("2" :> 2) @@ ("3" :> 3) @@ ("4" :> 4) @@
    ("5" :> 5) @@ ("6" :> 6) @@ ("7" :> 7) @@ ("8" :> 8) @@ ("9" :> 9)

\* int() of the digits that start after position p
RECURSIVE IntAt(_, _, _)
IntAt(t, p, value) ==
    IF p < Len(t) /\ t[p + 1] \in Digits
    THEN IntAt(t, p + 1, 10 * value + DigitValue[t[p + 1]])
    ELSE value

\* re.search(r'(\d+)\+?\s*years?', context): int(group(1)), or -1 for no match
YearsIn(context) ==
    LET items == <<Plus(Digits), Optional({"+"}), Star(Whitespace)>>
                    \o Literal(Spell["year"])
        starts == {p \in 0..Len(context) : MatchEnds(items, context, p) # {}}
    IN  IF starts = {} THEN 0 - 1
        ELSE IntAt(context, CHOOSE p \in starts : \A q \in starts : p <= q, 0)

expert_terms ==
    {"expert", "advanced", "proficient", "strong", "extensive", "deep", "senior"}

production_terms ==
    {"production", "deployed", "scalable", "enterprise", "large-scale"}

\* lines 108-134: the proficiency for a context, in hundredths
NeedInContext(context, years) ==
    Min(70 + (IF \E term \in expert_terms : Contains(context, Spell[term])
              THEN 15 ELSE 0)
           + (IF years >= 5 THEN 15 ELSE IF years >= 3 THEN 10
              ELSE IF years >= 1 THEN 5 ELSE 0)
           + (IF \E term \in production_terms : Contains(context, Spell[term])
              THEN 10 ELSE 0),
        100)

NeedInJoined(context) == NeedInContext(context, YearsIn(context))

NeedInMatches(matches) == IF matches = <<>> THEN 70 ELSE NeedInJoined(Join(matches))

\* _estimate_proficiency_needed, in hundredths
estimate_proficiency_needed(skill, description) ==
    NeedInMatches(ContextsFrom(<<UpTo(NotNewline, 100)>> \o Literal(Spell[skill])
                                    \o <<UpTo(NotNewline, 100)>>,
                               LowerText(description), 0))

NoSkills == [required |-> <<>>, preferred |-> <<>>, all |-> <<>>]

\* lines 67-90: the result for the skills found; a dict is a function
JobResult(required_skills, preferred_skills, needed) ==
    [required |-> [s \in required_skills |-> needed[s]],
     preferred |-> [s \in preferred_skills \ required_skills |->
                      (needed[s] * 8) \div 10],
     all |-> [s \in required_skills \cup preferred_skills |->
                IF s \in required_skills
                THEN [level |-> "required", proficiency |-> needed[s]]
                ELSE [level |-> "preferred",
                      proficiency |-> (needed[s] * 8) \div 10]]]

JobResults(required_outcomes, preferred_outcomes, description_lower) ==
    {JobResult(required_skills, preferred_skills,
               [s \in required_skills \cup preferred_skills |->
                    estimate_proficiency_needed(s, description_lower)]) :
        required_skills \in required_outcomes,
        preferred_skills \in preferred_outcomes}

\* lines 59-65
SectionResults(e, required_found, preferred_section, description_lower) ==
    JobResults(extract_skills_from_text(e,
                    IF required_found = <<>> /\ preferred_section = <<>>
                    THEN description_lower ELSE required_found),
               extract_skills_from_text(e, preferred_section),
               description_lower)

LowerJobResults(e, description_lower) ==
    SectionResults(e,
        Sections(required_keywords, preferred_keywords, description_lower),
        Sections(preferred_keywords, <<>>, description_lower),
        description_lower)

\* the results extract_skills_from_job can return
extract_skills_from_job(e, job_description) ==
    IF job_description = <<>> THEN {NoSkills}
    ELSE LowerJobResults(e, LowerText(job_description))

(***************************************************************************)
(* LLMSkillExtractor                                                       *)
(***************************************************************************)
\* re.sub(r'\s+', '-', t)
RECURSIVE Hyphenate(_)
Hyphenate(t) ==
    IF t = <<>> THEN t
    ELSE IF Head(t) \in Whitespace
         THEN IF Len(t) > 1 /\ t[2] \in Whitespace
              THEN Hyphenate(Tail(t))
              ELSE <<"-">> \o Hyphenate(Tail(t))
         ELSE <<Head(t)>> \o Hyphenate(Tail(t))

\* the name with the given spelling
NameOf(chars) == CHOOSE name \in DOMAIN Spell : Spell[name] = chars

\* skill.strip().lower() with whitespace replaced by hyphens
LLMName(skill) == NameOf(Hyphenate(LowerText(Strip(Spell[skill]))))

\* what the model answers to a prompt: an API error, text without a JSON
\* array, or a JSON array
LLMSkillNames == {"machine learning", "c"}

SimpleResponses ==
    {[kind |-> "error"], [kind |-> "prose"]}
        \cup {[kind |-> "array", items |-> items] :
                items \in {<<>>} \cup {<<s>> : s \in LLMSkillNames}}

DetailedItems ==
    {[skill |-> s] @@ Field("proficiency", p) @@ Field("confidence", c) :
        s \in LLMSkillNames,
        p \in Present({5, 99}) \cup {Missing},
        c \in Present({30}) \cup {Missing}}

DetailedResponses ==
    {[kind |-> "error"], [kind |-> "prose"]}
        \cup {[kind |-> "array", items |-> items] :
                items \in {<<>>} \cup {<<item>> : item \in DetailedItems}}

ResumeMinimumLength == 50

\* the resume text is too short for a prompt
TooShort(resume_text) ==
    resume_text = <<>> \/ Len(Strip(resume_text)) < ResumeMinimumLength

\* lines 135-142
RECURSIVE CleanNames(_)
CleanNames(items) ==
    IF items = <<>> THEN <<>>
    ELSE (IF Len(Spell[LLMName(Head(items))]) > 1
          THEN <<LLMName(Head(items))>> ELSE <<>>) \o CleanNames(Tail(items))

\* LLMSkillExtractor.extract_skills_from_resume
llm_extract_skills_from_resume(client, resume_text, response) ==
    IF ~client \/ TooShort(resume_text) THEN <<>>
    ELSE IF response.kind = "array" THEN CleanNames(response.items)
    ELSE <<>>

\* lines 206-223
CleanItem(item) ==
    [skill_name |-> LLMName(item.skill),
     proficiency |-> Max(10, Min(95, Get(item, "proficiency", 50))),
     confidence |-> Max(50, Min(90, Get(item, "confidence", 70)))]

\* LLMSkillExtractor.extract_skills_with_proficiency; second is the answer
\* to the prompt of the fallback
extract_skills_with_proficiency(client, resume_text, response, second) ==
    IF ~client \/ TooShort(resume_text) THEN <<>>
    ELSE IF response.kind = "array"
         THEN [k \in 1..Len(response.items) |-> CleanItem(response.items[k])]
    ELSE IF response.kind = "prose"
         THEN LET simple_skills ==
                    llm_extract_skills_from_resume(client, resume_text, second)
              IN  [k \in 1..Len(simple_skills) |->
                      [skill_name |-> simple_skills[k],
                       proficiency |-> 60, confidence |-> 70]]
    ELSE <<>>

(***************************************************************************)
(* Requests that carry a text                                              *)
(***************************************************************************)
MaxExtractors == 2

MaxPhrases == 1

\* a sentence of 46 characters that names no skill
Padding == "we want one person who will join our good team"

Variants(synonyms) ==
    UNION {{synonyms[i].variants[k] : k \in 1..Len(synonyms[i].variants)} :
                i \in 1..Len(synonyms)}

\* the phrases a text of the model is made of
Vocabulary ==
    AllSkills \cup Variants(DefaultSynonyms)
        \cup {"Python", "expert", "and", "skills: py, sql", "(js; psql)", Padding,
              "required: expert sql", "must have c plus plus", "sql bonus: aws",
              "5+ years of python in production"}

\* the text of a sequence of phrases: the phrases with one space between
RECURSIVE TextOf(_)
TextOf(phrases) ==
    IF phrases = <<>> THEN <<>>
    ELSE IF Len(phrases) = 1 THEN Spell[phrases[1]]
    ELSE Spell[Head(phrases)] \o <<" ">> \o TextOf(Tail(phrases))

\* SkillExtractor(skills_file_path): the services build their extractors
\* before a request is served
Construct ==
    /\ Len(extractors) < MaxExtractors
    /\ request_text = <<>>
    /\ text_result = NoResult
    /\ source_record = NoResult
    /\ estimate = NoResult
    /\ \E file \in {NoFile} \cup CustomFiles :
          LET loaded == SynonymsAfterLoad(SKILL_SYNONYMS, file)
          IN  /\ SKILL_SYNONYMS' = loaded
              /\ extractors' = Append(extractors, NewExtractor(loaded, file))
    /\ UNCHANGED <<request_text, text_result, notTextVars>>

\* a client writes the text of its request
TypePhrase ==
    /\ extractors # <<>>
    /\ text_result = NoResult
    /\ Len(request_text) < MaxPhrases
    /\ \E phrase \in Vocabulary : request_text' = Append(request_text, phrase)
    /\ UNCHANGED <<SKILL_SYNONYMS, extractors, text_result, notTextVars>>

AddPadding ==
    /\ extractors # <<>>
    /\ text_result = NoResult
    /\ request_text # <<>>
    /\ Len(request_text) <= MaxPhrases
    /\ request_text[Len(request_text)] # Padding
    /\ request_text' = Append(request_text, Padding)
    /\ UNCHANGED <<SKILL_SYNONYMS, extractors, text_result, notTextVars>>

ExtractSkills ==
    /\ text_result = NoResult
    /\ \E i \in DOMAIN extractors :
          \E skills \in extract_skills_from_text(extractors[i], TextOf(request_text)) :
              text_result' = [op |-> "extract_skills_from_text",
                              extractor |-> i, skills |-> skills]
    /\ UNCHANGED <<SKILL_SYNONYMS, extractors, request_text, notTextVars>>

MinimumLength == 50

\* POST /api/jobs/analyze
AnalyzeJobSkills ==
    /\ text_result = NoResult
    /\ \E i \in DOMAIN extractors :
          LET job_description == TextOf(request_text)
          IN  IF job_description = <<>> \/ Len(job_description) < MinimumLength
              THEN text_result' = [op |-> "analyze_job_skills", extractor |-> i,
                                   status |-> 400,
                                   detail |-> "Job description too short"]
              ELSE \E skills \in extract_skills_from_job(extractors[i], job_description) :
                      text_result' = [op |-> "analyze_job_skills", extractor |-> i,
                                      status |-> 200,
                                      required_skills |-> skills.required,
                                      preferred_skills |-> skills.preferred,
                                      total_skills |-> Cardinality(DOMAIN skills.all),
                                      all_skills |-> skills.all]
    /\ UNCHANGED <<SKILL_SYNONYMS, extractors, request_text, notTextVars>>

\* the resume text goes to the LLM extractor
ExtractWithLLM ==
    /\ extractors # <<>>
    /\ text_result = NoResult
    /\ \E client \in BOOLEAN, resume_text \in {TextOf(request_text)},
          response \in DetailedResponses :
          \* the fallback prompt is sent only after an answer without an array
          \E second \in IF client /\ response.kind = "prose"
                         THEN SimpleResponses ELSE {response} :
              text_result' =
                  [op |-> "extract_skills_with_proficiency",
                   skills |-> extract_skills_with_proficiency(
                                  client, resume_text, response, second)]
    /\ UNCHANGED <<SKILL_SYNONYMS, extractors, request_text, notTextVars>>

TextNext ==
    \/ Construct \/ TypePhrase \/ AddPadding
    \/ ExtractSkills \/ AnalyzeJobSkills \/ ExtractWithLLM

TextSpec == Init /\ [][TextNext]_vars

\* the instance that served the request
Serving == extractors[text_result.extractor]

\* extract_skills_from_text has answered for a text that is one phrase
ExtractedFromOne ==
    /\ text_result # NoResult
    /\ text_result.op = "extract_skills_from_text"
    /\ Len(request_text) = 1

(***************************************************************************)
(* C15: for every pair (variant, canonical) of the synonym table, the      *)
(* skills extracted from a text that consists of the variant alone contain *)
(* the canonical name and do not contain the variant.                      *)
(***************************************************************************)
C15_VariantYieldsCanonicalOnly ==
    (ExtractedFromOne /\ request_text[1] \in DOMAIN Serving.synonym_map) =>
        /\ Serving.synonym_map[request_text[1]] \in text_result.skills
        /\ request_text[1] \notin text_result.skills

(***************************************************************************)
(* C16: for every skill of the taxonomy, names with punctuation included,  *)
(* the skills extracted from a text that consists of the skill alone       *)
(* contain the skill.                                                      *)
(***************************************************************************)
C16_SkillFoundInItsOwnName ==
    (ExtractedFromOne /\ request_text[1] \in Serving.skills_list) =>
        request_text[1] \in text_result.skills

(***************************************************************************)
(* C17: for a text shorter than the minimum length, skill matching is a    *)
(* defined no-op: the operation returns an empty result and reports no     *)
(* error to its caller.                                                    *)
(***************************************************************************)
C17_ShortTextIsNoOp ==
    (text_result # NoResult /\ Len(TextOf(request_text)) < MinimumLength) =>
        CASE text_result.op = "extract_skills_from_text" ->
                text_result.skills = {}
          [] text_result.op = "analyze_job_skills" ->
                text_result.status = 200 /\ text_result.total_skills = 0
          [] text_result.op = "extract_skills_with_proficiency" ->
                text_result.skills = <<>>

(***************************************************************************)
(* SkillExtractor proficiency estimators                                   *)
(*                                                                         *)
(* A free-text field is modelled by the set of the keywords, among those   *)
(* the code looks for, that occur in its lower-cased text; the code tests  *)
(* such a field only with "keyword in text".  A field whose case the code  *)
(* folds keeps its spelling and is folded by Upper and Lower.              *)
(***************************************************************************)
MaxTerms == 3

\* str.upper() and str.lower() on the spellings of the model
Upper(str) ==
    CASE str = "a" -> "A"
      [] str = "b+" -> "B+"
      [] OTHER -> str

Lower(str) ==
    CASE str = "Coursera" -> "coursera"
      [] str = "AWS" -> "aws"
      [] str = "Internship" -> "internship"
      [] str = "Full-Time" -> "full-time"
      [] OTHER -> str

ReputablePlatforms ==
    {"coursera", "edx", "mit", "stanford", "udacity", "google", "microsoft", "aws"}

\* calculate_proficiency_from_course: <<proficiency, confidence>>
calculate_proficiency_from_course(course_data) ==
    LET grade == Upper(Get(course_data, "grade", ""))
        gradeProf == IF grade \in {"A+", "A"} THEN 15
                     ELSE IF grade \in {"A-", "B+"} THEN 10
                     ELSE IF grade \in {"B", "B-"} THEN 5
                     ELSE 0
        gradeConf == IF grade \in {"A+", "A"} THEN 10 ELSE 0
        platform == Lower(Get(course_data, "platform", ""))
        reputable == platform \in ReputablePlatforms
        text == Get(course_data, "course_name", {}) \cup Get(course_data, "description", {})
        levelProf == IF "advanced" \in text \/ "expert" \in text THEN 10
                     ELSE IF "intermediate" \in text THEN 5
                     ELSE 0
        base_proficiency == 50 + gradeProf + (IF reputable THEN 5 ELSE 0) + levelProf
        confidence == 70 + gradeConf + (IF reputable THEN 5 ELSE 0)
    IN  <<Min(base_proficiency, 70), Min(confidence, 85)>>

\* complexity_terms: the boost of each term, in hundredths
ComplexityBoost ==
    [deployed |-> 15, production |-> 15, scalable |-> 10, large_scale |-> 10,
     complex |-> 10, advanced |-> 10, optimized |-> 8, improved |-> 8,
     integrated |-> 5, api |-> 5, real_time |-> 8, machine_learning |-> 10,
     ai |-> 8]

ComplexityTerms == DOMAIN ComplexityBoost

RECURSIVE SumBoost(_)
SumBoost(terms) ==
    IF terms = {} THEN 0
    ELSE LET term == CHOOSE t \in terms : TRUE
         IN  ComplexityBoost[term] + SumBoost(terms \ {term})

\* bool(value) of a link field: None and '' are false
Truthy(value) == value # ""

\* the project scores before the caps of the return statement
project_scores(project_data) ==
    LET description == Get(project_data, "description", {}) \cap ComplexityTerms
        role == Get(project_data, "role", {})
        leads == "lead" \in role \/ "architect" \in role
        github == Truthy(Get(project_data, "github_link", ""))
        deployed == Truthy(Get(project_data, "deployed_link", ""))
        base_proficiency ==
            60 + SumBoost(description)
               + (IF leads THEN 10 ELSE IF "solo" \in role THEN 5 ELSE 0)
               + (IF github THEN 5 ELSE 0)
               + (IF deployed THEN 10 ELSE 0)
        confidence ==
            75 + 2 * Cardinality(description)
               + (IF leads THEN 5 ELSE 0)
               + (IF github THEN 3 ELSE 0)
               + (IF deployed THEN 5 ELSE 0)
    IN  <<base_proficiency, confidence>>

\* the return statement without its caps
UncappedProject(project_data) == project_scores(project_data)

\* calculate_proficiency_from_project: <<proficiency, confidence>>
calculate_proficiency_from_project(project_data) ==
    <<Min(project_scores(project_data)[1], 90),
      Min(project_scores(project_data)[2], 92)>>

SeniorTitles == {"senior", "lead", "principal", "staff", "director"}

JuniorTitles == {"junior", "intern", "trainee"}

LeadershipVerbs == {"led", "architected", "designed", "implemented", "built"}

\* calculate_proficiency_from_experience: <<proficiency, confidence>>
calculate_proficiency_from_experience(exp_data) ==
    LET description == Get(exp_data, "description", {})
        job_title == Get(exp_data, "job_title", {})
        senior == job_title \cap SeniorTitles # {}
        junior == ~senior /\ job_title \cap JuniorTitles # {}
        emp_type == Lower(Get(exp_data, "employment_type", ""))
        complexity == description \cap LeadershipVerbs # {}
        base_proficiency ==
            65 + (IF senior THEN 15 ELSE IF junior THEN 0 - 10 ELSE 0)
               + (IF emp_type = "internship" THEN 0 - 10
                  ELSE IF emp_type \in {"full-time", "contract"} THEN 5
                  ELSE 0)
               + (IF complexity THEN 10 ELSE 0)
        confidence == 80 + (IF senior THEN 10 ELSE 0) + (IF complexity THEN 5 ELSE 0)
    IN  <<Min(Max(base_proficiency, 40), 95), Min(confidence, 95)>>

\* the course records of the model: every field present or missing
GradeValues == {"A+", "a", "A-", "b+", "B", "B-", "C", ""}

PlatformValues == {"Coursera", "AWS", "udemy"}

LevelWords == {"advanced", "expert", "intermediate"}

CourseRecords ==
    {Field("grade", g) @@ Field("platform", p)
        @@ Field("course_name", n) @@ Field("description", d) :
        g \in Present(GradeValues) \cup {Missing},
        p \in Present(PlatformValues) \cup {Missing},
        n \in Present({{}, {"advanced"}, {"intermediate"}}) \cup {Missing},
        d \in Present({{}, {"expert"}, {"intermediate"}, {"advanced", "intermediate"}})
                \cup {Missing}}

\* the project records of the model: descriptions of at most MaxTerms terms
RoleValues == {{}, {"lead"}, {"architect"}, {"solo"}, {"solo", "lead"}}

LinkValues == {"https://example.org/x", ""}

ProjectRecords ==
    {Field("description", d) @@ Field("role", r)
        @@ Field("github_link", g) @@ Field("deployed_link", l) :
        d \in Present({t \in SUBSET ComplexityTerms : Cardinality(t) <= MaxTerms})
                \cup {Missing},
        r \in Present(RoleValues) \cup {Missing},
        g \in Present(LinkValues) \cup {Missing},
        l \in Present(LinkValues) \cup {Missing}}

ExperienceRecords ==
    {Field("job_title", t) @@ Field("employment_type", e) @@ Field("description", d) :
        t \in Present(SUBSET {"senior", "director", "junior", "trainee"}) \cup {Missing},
        e \in Present({"Internship", "internship", "Full-Time", "contract", "part-time"})
                \cup {Missing},
        d \in Present(SUBSET {"led", "built"}) \cup {Missing}}

\* lines 669-679: the characters '.' matches under re.DOTALL
AnyChar == Alphabet

expertise_terms ==
    <<"expert", "proficient", "advanced", "extensive", "strong", "skilled",
      "lead", "senior">>

\* rf'\b{re.escape(first)}\b.{0,100}\b{re.escape(second)}\b'
Near(first, second) ==
    WholeWord(first) \o <<UpTo(AnyChar, 100)>> \o WholeWord(second)

\* self.SKILL_SYNONYMS[skill_lower], or nothing when the key is absent
SynonymsOf(synonyms, skill_lower) ==
    IF \E i \in 1..Len(synonyms) : synonyms[i].canonical = skill_lower
    THEN (CHOOSE e \in {synonyms[i] : i \in 1..Len(synonyms)} :
              e.canonical = skill_lower).variants
    ELSE <<>>

RECURSIVE CountSynonyms(_, _)
CountSynonyms(variants, t) ==
    IF variants = <<>> THEN 0
    ELSE FindCount(WholeWord(Spell[Head(variants)]), t)
            + CountSynonyms(Tail(variants), t)

\* lines 641-683, in hundredths; synonyms is the class attribute at the call
calculate_proficiency_from_text(synonyms, skill, t) ==
    LET text_lower == LowerText(t)
        skill_lower == LowerName(skill)
        mention_count ==
            FindCount(WholeWord(Spell[skill_lower]), text_lower)
                + CountSynonyms(SynonymsOf(synonyms, skill_lower), text_lower)
        base_proficiency ==
            IF mention_count >= 5 THEN 75
            ELSE IF mention_count >= 3 THEN 65
            ELSE IF mention_count >= 2 THEN 55
            ELSE 50
        boosted ==
            \E k \in 1..Len(expertise_terms) :
                \/ Search(Near(Spell[expertise_terms[k]], Spell[skill_lower]),
                          text_lower)
                \/ Search(Near(Spell[skill_lower], Spell[expertise_terms[k]]),
                          text_lower)
        confidence == Min(60 + mention_count * 5, 85)
        proficiency ==
            Min(IF boosted THEN base_proficiency + 10 ELSE base_proficiency, 90)
    IN  <<proficiency, confidence>>

MaxMentions == 5

\* the words of a text that mentions a skill
MentionWords == {"python", "py", "expert"}

\* the skills whose proficiency is read off a text
EstimatedSkills == {"Python", "sql"}

\* the caller reads one stored record of the user to estimate a skill from
ChooseRecord(kind, records) ==
    /\ extractors # <<>>
    /\ source_record = NoResult
    /\ request_text = <<>>
    /\ \E data \in records : source_record' = [kind |-> kind, data |-> data]
    /\ UNCHANGED <<estimate, notEstVars>>

ChooseCourse == ChooseRecord("course", CourseRecords)

ChooseProject == ChooseRecord("project", ProjectRecords)

ChooseExperience == ChooseRecord("experience", ExperienceRecords)

\* the caller reads a text that mentions skills, word by word
WriteMention ==
    /\ extractors # <<>>
    /\ source_record = NoResult
    /\ text_result = NoResult
    /\ Len(request_text) < MaxMentions
    /\ \E word \in MentionWords : request_text' = Append(request_text, word)
    /\ UNCHANGED <<SKILL_SYNONYMS, extractors, text_result, notTextVars>>

EstimateWith(kind, value) ==
    /\ source_record # NoResult
    /\ source_record.kind = kind
    /\ estimate = NoResult
    /\ estimate' = [kind |-> kind, proficiency |-> value[1],
                    confidence |-> value[2]]
    /\ UNCHANGED <<source_record, notEstVars>>

EstimateCourse ==
    /\ source_record # NoResult
    /\ source_record.kind = "course"
    /\ EstimateWith("course", calculate_proficiency_from_course(source_record.data))

EstimateProject ==
    /\ source_record # NoResult
    /\ source_record.kind = "project"
    /\ EstimateWith("project", calculate_proficiency_from_project(source_record.data))

EstimateExperience ==
    /\ source_record # NoResult
    /\ source_record.kind = "experience"
    /\ EstimateWith("experience",
                    calculate_proficiency_from_experience(source_record.data))

EstimateText ==
    /\ extractors # <<>>
    /\ source_record = NoResult
    /\ text_result = NoResult
    /\ \E skill \in EstimatedSkills :
          LET value == calculate_proficiency_from_text(
                           SKILL_SYNONYMS, skill, TextOf(request_text))
          IN  /\ source_record' = [kind |-> "text", data |-> [skill |-> skill]]
              /\ estimate' = [kind |-> "text", proficiency |-> value[1],
                              confidence |-> value[2]]
    /\ UNCHANGED notEstVars

EstimateNext ==
    \/ Construct
    \/ ChooseCourse \/ ChooseProject \/ ChooseExperience \/ WriteMention
    \/ EstimateCourse \/ EstimateProject \/ EstimateExperience \/ EstimateText

EstimateSpec == Init /\ [][EstimateNext]_vars

(***************************************************************************)
(* C11: whatever record an estimator is given, fields missing or not, the   *)
(* proficiency it returns lies in the range of its source type (course     *)
(* 0.50 to 0.70, project 0.60 to 0.90, experience 0.40 to 0.95, text 0.50  *)
(* to 0.90) and the confidence lies between 0 and 0.95.                    *)
(***************************************************************************)
ProficiencyRange ==
    [course |-> 50..70, project |-> 60..90, experience |-> 40..95,
     text |-> 50..90]

C11_EstimatesInRange ==
    estimate # NoResult =>
        /\ estimate.proficiency \in ProficiencyRange[estimate.kind]
        /\ estimate.confidence \in 0..95

\* a project record with every field missing has been estimated, at the
\* floor of the project range
C11_Witness ==
    /\ estimate # NoResult
    /\ estimate.kind = "project"
    /\ DOMAIN source_record.data = {}
    /\ estimate.proficiency = 60

(***************************************************************************)
(* C18: constructing a SkillExtractor, with or without a custom skills     *)
(* file, leaves the class-level synonym table as it was and leaves the     *)
(* results an already constructed instance returns from                    *)
(* extract_skills_from_text and calculate_proficiency_from_text, for the   *)
(* same arguments, as they were.                                           *)
(***************************************************************************)
ProbeTexts == {Spell[name] : name \in {"sequel", "golang", "py", "postgres"}}

ProbeSkills == {"sql", "Python"}

C18_ConstructionChangesNothing ==
    [][Len(extractors') > Len(extractors) =>
        /\ SKILL_SYNONYMS' = SKILL_SYNONYMS
        /\ \A i \in DOMAIN extractors, t \in ProbeTexts :
              /\ extract_skills_from_text(extractors'[i], t)
                    = extract_skills_from_text(extractors[i], t)
              /\ \A skill \in ProbeSkills :
                    calculate_proficiency_from_text(SKILL_SYNONYMS', skill, t)
                        = calculate_proficiency_from_text(SKILL_SYNONYMS, skill, t)]_vars

(***************************************************************************)
(* The table user_skills (src/app/database.py) and the four handlers that  *)
(* write it: extract_user_skills and clear_user_skills                     *)
(* (src/app/routers/skills.py), analyze_user_github and                    *)
(* analyze_user_linkedin (src/app/routers/analysis.py; src/main.py keeps   *)
(* an older copy of analyze_user_github).  A handler runs inside get_db(), *)
(* which commits when the handler returns and rolls back when it raises,   *)
(* so a request is one step.  The column sources holds json.dumps of a     *)
(* list of strings and is read back with json.loads; the model keeps the   *)
(* list.                                                                   *)
(***************************************************************************)

\* the ids of the rows of the table users
UserIds == {1, 2}

\* the requests served before the model stops
MaxCalls == 3

\* SELECT ... FROM user_skills WHERE user_id = ?
RowsOf(table, user_id) == {r \in table : r.user_id = user_id}

\* a handler that inserts without deleting first
KeepUserSkills(table, user_id) == table

\* DELETE FROM user_skills WHERE user_id = ?
DeleteUserSkills(table, user_id) == table \ RowsOf(table, user_id)

\* a lookup that never finds the row
ExistingNever(table, user_id, skill) == {}

\* SELECT ... FROM user_skills WHERE user_id = ? AND skill_name = ?
Existing(table, user_id, skill) ==
    {r \in table : r.user_id = user_id /\ r.skill_name = skill}

\* cursor.fetchone(): the first matching row, in rowid order
FetchOne(rows) == CHOOSE r \in rows : \A other \in rows : r.id <= other.id

\* sorted(list(found_skills)): the skills of one source, as
\* extract_skills_from_text returns them
SortedSkills == <<"python", "sql">>

\* the keys of a source's skills map that are not yet in the list, in sorted
\* order
RECURSIVE NewKeys(_, _, _)
NewKeys(skills, seen, i) ==
    IF i > Len(SortedSkills) THEN <<>>
    ELSE (IF SortedSkills[i] \in DOMAIN skills /\ SortedSkills[i] \notin seen
          THEN <<SortedSkills[i]>> ELSE <<>>) \o NewKeys(skills, seen, i + 1)

\* the keys of aggregated_skills in the order .items() gives them: a dict
\* keeps the order in which its keys were first set
RECURSIVE KeyOrder(_, _)
KeyOrder(sources, seen) ==
    IF sources = <<>> THEN <<>>
    ELSE LET new == NewKeys(SourceSkills(Head(sources)), seen, 1)
         IN  new \o KeyOrder(Tail(sources), seen \cup {new[i] : i \in 1..Len(new)})

\* INSERT INTO user_skills (user_id, skill_name, proficiency, confidence,
\* source_count, sources) for every item of aggregated_skills
RECURSIVE InsertAggregated(_, _, _, _, _)
InsertAggregated(table, id, user_id, aggregated_skills, order) ==
    IF order = <<>> THEN table
    ELSE LET skill_name == Head(order)
             skill_data == aggregated_skills[skill_name]
         IN  InsertAggregated(
                 table \cup {[id |-> id,
                              user_id |-> user_id,
                              skill_name |-> skill_name,
                              proficiency |-> skill_data.proficiency,
                              confidence |-> skill_data.confidence,
                              source_count |-> skill_data.source_count,
                              sources |-> skill_data.sources]},
                 id + 1, user_id, aggregated_skills, Tail(order))

\* all_skill_sources can hold a resume, a course, a project and an
\* experience source, appended in this order
HandlerSources ==
    <<[source |-> "resume", source_id |-> 0,
       skills |-> ("python" :> TupleValue(60, 60))],
      [source |-> "course", source_id |-> 4,
       skills |-> ("python" :> TupleValue(65, 70)) @@ ("sql" :> TupleValue(40, 50))],
      [source |-> "project", source_id |-> 2,
       skills |-> ("sql" :> TupleValue(87, 80))],
      [source |-> "experience", source_id |-> 1,
       skills |-> ("python" :> TupleValue(83, 85))]>>

\* the sources of the list at the chosen positions, in the order of the list
RECURSIVE Pick(_, _, _)
Pick(list, chosen, i) ==
    IF i > Len(list) THEN <<>>
    ELSE (IF i \in chosen THEN <<list[i]>> ELSE <<>>) \o Pick(list, chosen, i + 1)

\* what extract_skills_from_resume and calculate_proficiency_from_text make
\* of the resume text: nothing, or the skills of the resume source
ResumeNlpSkills == {<<>>, HandlerSources[1].skills}

\* what extract_skills_with_proficiency answers: no skill (an error, a short
\* text, an empty answer) or skills with the model's own estimates
LlmAnswers == {<<>>, "python" :> TupleValue(80, 90)}

\* the course, project and experience sources of the user, in this order
OtherSourceLists ==
    {Pick(Tail(HandlerSources), chosen, 1) :
        chosen \in SUBSET (1..Len(Tail(HandlerSources)))}

\* resume_skill_data: the LLM's skills when services.has_llm_api(), however
\* many they are, and the NLP extractor's skills otherwise
ResumeSkillData(has_llm, llm_skills, nlp_skills) ==
    IF has_llm THEN llm_skills ELSE nlp_skills

\* used_llm after the resume step
UsedLlm(has_llm, llm_skills) == has_llm /\ DOMAIN llm_skills # {}

\* all_skill_sources after steps 1 to 4: the resume source when
\* resume_skill_data is not empty, then the other sources unless the LLM
\* was used
AllSkillSources(has_llm, llm_skills, nlp_skills, others) ==
    LET resume_skill_data == ResumeSkillData(has_llm, llm_skills, nlp_skills)
    IN  (IF DOMAIN resume_skill_data # {}
         THEN <<[source |-> "resume", source_id |-> 0, skills |-> resume_skill_data]>>
         ELSE <<>>)
        \o (IF UsedLlm(has_llm, llm_skills) THEN <<>> ELSE others)

\* the elements of a list
Range(list) == {list[i] : i \in 1..Len(list)}

\* a handler that overwrites whatever it finds
ShouldUpdateAlways(proficiency, stored) == TRUE

\* 'if proficiency > existing_dict['proficiency']'
ShouldUpdate(proficiency, stored) == proficiency > stored

\* the row after UPDATE user_skills SET ... WHERE id = ?: analysis.py reads
\* the column sources only in analyze_user_github, so that analyze_user_linkedin
\* starts from an empty list; main.py writes ['github'] and leaves
\* source_count alone
Updated(row, values, handler) ==
    LET label == IF handler = "analyze_user_linkedin" THEN "linkedin" ELSE "github"
        read == IF handler = "analyze_user_github" THEN row.sources ELSE <<>>
        sources == IF label \in Range(read) THEN read ELSE Append(read, label)
    IN  [row EXCEPT !.proficiency = values.proficiency,
                    !.confidence = values.confidence,
                    !.sources = sources,
                    !.source_count =
                        IF handler = "main.analyze_user_github" THEN @ ELSE Len(sources)]

\* the row of 'Insert new skill'
Inserted(id, user_id, skill, values, handler) ==
    [id |-> id,
     user_id |-> user_id,
     skill_name |-> skill,
     proficiency |-> values.proficiency,
     confidence |-> values.confidence,
     source_count |-> 1,
     sources |-> <<IF handler = "analyze_user_linkedin" THEN "linkedin" ELSE "github">>]

\* the loop 'for skill, (proficiency, confidence) in ....items()': the table
\* and the next id after it
RECURSIVE SaveFound(_, _, _, _, _)
SaveFound(table, id, user_id, found, handler) ==
    IF found = <<>> THEN <<table, id>>
    ELSE LET skill == Head(found).skill
             existing == Existing(table, user_id, skill)
         IN  IF existing # {}
             THEN IF ShouldUpdate(Head(found).proficiency, FetchOne(existing).proficiency)
                  THEN SaveFound((table \ {FetchOne(existing)})
                                     \cup {Updated(FetchOne(existing), Head(found), handler)},
                                 id, user_id, Tail(found), handler)
                  ELSE SaveFound(table, id, user_id, Tail(found), handler)
             ELSE SaveFound(table \cup {Inserted(id, user_id, skill, Head(found), handler)},
                            id + 1, user_id, Tail(found), handler)

\* an item of skills_found or skills_to_save; the dict is the list of its
\* items in insertion order
Item(skill, p, c) == [skill |-> skill, proficiency |-> p, confidence |-> c]

\* result['skills_found'] of github_analyzer.analyze_github_profile
GithubFound ==
    {<<>>,
     <<Item("python", 70, 60)>>,
     <<Item("python", 90, 80)>>,
     <<Item("python", 90, 80), Item("sql", 30, 50)>>}

\* what the loop over extract_skills_with_proficiency leaves in
\* skills_to_save: nothing without an API key or after an exception
LinkedinExtracted == {<<>>, <<Item("python", 95, 90)>>}

\* the three fallback tables, chosen by the user's target_role
LinkedinDefaults ==
    {<<Item("data-analysis", 80, 80), Item("sql", 75, 80), Item("python", 70, 75),
       Item("tableau", 65, 70), Item("business-intelligence", 70, 70)>>,
     <<Item("healthcare-administration", 80, 85), Item("patient-care", 70, 70),
       Item("clinical-data", 75, 80), Item("compliance", 80, 80)>>,
     <<Item("project-management", 75, 80), Item("communication", 85, 90),
       Item("team-leadership", 70, 70)>>}

\* skills_to_save: the extracted skills, or a fallback table when there are
\* none
SkillsToSave ==
    {extracted \in LinkedinExtracted : extracted # <<>>} \cup LinkedinDefaults

\* what db_call records of a served request
Served(op, user_id, result) ==
    [seq |-> db_call.seq + 1,
     op |-> op,
     user_id |-> user_id,
     result |-> result,
     before |-> RowsOf(user_skills_rows, user_id)]

\* the steps of one extraction that write the table: aggregate, delete the
\* owner's rows, insert one row per aggregated skill
SaveExtracted(user_id, has_llm, llm_skills, nlp_skills, all_skill_sources) ==
    \E aggregated_skills \in aggregate_skills(all_skill_sources) :
       /\ user_skills_rows' =
              InsertAggregated(DeleteUserSkills(user_skills_rows, user_id),
                               next_id, user_id, aggregated_skills,
                               KeyOrder(all_skill_sources, {}))
       /\ next_id' = next_id + Cardinality(DOMAIN aggregated_skills)
       /\ db_call' = Served("extract_user_skills", user_id, aggregated_skills)
                        @@ [has_llm |-> has_llm,
                            llm_skills |-> llm_skills,
                            nlp_skills |-> nlp_skills,
                            all_skill_sources |-> all_skill_sources]

\* POST /api/skills/users/{user_id}/extract; the LLM is asked only when
\* services.has_llm_api()
ExtractUserSkills ==
    /\ db_call.seq < MaxCalls
    /\ \E user_id \in UserIds, has_llm \in BOOLEAN, nlp_skills \in ResumeNlpSkills,
          others \in OtherSourceLists :
          \E llm_skills \in (IF has_llm THEN LlmAnswers ELSE {<<>>}) :
             SaveExtracted(user_id, has_llm, llm_skills, nlp_skills,
                           AllSkillSources(has_llm, llm_skills, nlp_skills, others))
    /\ UNCHANGED notDbVars

\* DELETE /api/skills/users/{user_id}
ClearUserSkills ==
    /\ db_call.seq < MaxCalls
    /\ \E user_id \in UserIds :
          /\ user_skills_rows' = DeleteUserSkills(user_skills_rows, user_id)
          /\ db_call' = Served("clear_user_skills", user_id, <<>>)
    /\ UNCHANGED <<next_id, notDbVars>>

\* the part the analysis handlers share: save what was found
Analyze(handler, founds) ==
    /\ db_call.seq < MaxCalls
    /\ \E user_id \in UserIds, found \in founds :
          LET saved == SaveFound(user_skills_rows, next_id, user_id, found, handler)
          IN  /\ user_skills_rows' = saved[1]
              /\ next_id' = saved[2]
              /\ db_call' = Served(handler, user_id, found)
    /\ UNCHANGED notDbVars

\* POST /api/analysis/users/{user_id}/analyze-github
AnalyzeUserGithub == Analyze("analyze_user_github", GithubFound)

\* the copy of the handler in src/main.py
MainAnalyzeUserGithub == Analyze("main.analyze_user_github", GithubFound)

\* POST /api/analysis/users/{user_id}/analyze-linkedin
AnalyzeUserLinkedin == Analyze("analyze_user_linkedin", SkillsToSave)

DbNext ==
    \/ ExtractUserSkills
    \/ ClearUserSkills
    \/ AnalyzeUserGithub
    \/ MainAnalyzeUserGithub
    \/ AnalyzeUserLinkedin

DbSpec == Init /\ [][DbNext]_vars

(***************************************************************************)
(* Requests side by side.  A synchronous handler runs on a worker thread   *)
(* with a connection of its own (get_db opens one per request).  sqlite3   *)
(* runs a SELECT outside a transaction; the first INSERT, UPDATE or DELETE *)
(* of a connection opens a transaction that takes the write lock of the    *)
(* database file and keeps it until conn.commit() at the end of get_db.    *)
(* Another connection reads the committed rows in the meantime; its own    *)
(* write waits for the lock and fails with 'database is locked' when the   *)
(* wait times out.  user_skills_rows holds the committed rows.             *)
(***************************************************************************)
ConcurrentHandlers == {"analyze_user_github", "analyze_user_linkedin"}

\* the lists the handler iterates
FoundBy(handler) ==
    IF handler = "analyze_user_github" THEN GithubFound ELSE SkillsToSave

\* the lists of sources an extraction aggregates here
ConcurrentSourceLists ==
    {AllSkillSources(FALSE, <<>>, nlp_skills, others) :
        nlp_skills \in ResumeNlpSkills,
        others \in {<<>>, <<HandlerSources[2]>>}}

\* the rows a connection reads: its own uncommitted rows once it writes
Visible(c) ==
    IF reserved_by = c THEN connections[c].pending ELSE user_skills_rows

\* the write lock is free or the connection's own
CanWrite(c) == reserved_by \in {NoConnection, c}

\* UPDATE user_skills SET ... WHERE id = ?, with the values the handler
\* computed from the row it selected
UpdateWhereId(table, selected, values, handler) ==
    LET computed == Updated(selected, values, handler)
    IN  {IF r.id = selected.id
         THEN [r EXCEPT !.proficiency = computed.proficiency,
                        !.confidence = computed.confidence,
                        !.sources = computed.sources,
                        !.source_count =
                            IF handler = "main.analyze_user_github"
                            THEN @ ELSE computed.source_count]
         ELSE r : r \in table}

\* a request for one of the analysis handlers arrives
StartAnalysis(c) ==
    /\ connections[c].op = "idle"
    /\ \E handler \in ConcurrentHandlers, user_id \in UserIds :
          \E found \in FoundBy(handler) :
             connections' = [connections EXCEPT
                 ![c] = [Idle EXCEPT !.op = handler, !.pc = "loop",
                                     !.user_id = user_id, !.todo = found]]
    /\ UNCHANGED <<user_skills_rows, next_id, reserved_by, notConcVars>>

\* a request for extract_user_skills arrives and gathers its sources
StartExtract(c) ==
    /\ connections[c].op = "idle"
    /\ \E user_id \in UserIds, all_skill_sources \in ConcurrentSourceLists :
          connections' = [connections EXCEPT
              ![c] = [Idle EXCEPT !.op = "extract_user_skills", !.pc = "save",
                                  !.user_id = user_id,
                                  !.sources = all_skill_sources]]
    /\ UNCHANGED <<user_skills_rows, next_id, reserved_by, notConcVars>>

\* cursor.execute("SELECT ... WHERE user_id = ? AND skill_name = ?") and
\* fetchone() for the next skill of the loop
SelectExisting(c) ==
    LET conn == connections[c]
    IN  /\ conn.pc = "loop"
        /\ conn.todo # <<>>
        /\ connections' = [connections EXCEPT
               ![c].pc = "selected",
               ![c].existing = Existing(Visible(c), conn.user_id, Head(conn.todo).skill)]
        /\ UNCHANGED <<user_skills_rows, next_id, reserved_by, notConcVars>>

\* the branch 'if existing' of the loop body: UPDATE when the found
\* proficiency is higher, INSERT when no row was selected
SaveSkill(c) ==
    LET conn == connections[c]
        item == Head(conn.todo)
    IN  /\ conn.pc = "selected"
        /\ IF conn.existing # {}
              /\ ~ShouldUpdate(item.proficiency, FetchOne(conn.existing).proficiency)
           THEN /\ connections' = [connections EXCEPT
                       ![c].pc = "loop", ![c].todo = Tail(conn.todo)]
                /\ UNCHANGED <<next_id, reserved_by>>
           ELSE /\ CanWrite(c)
                /\ reserved_by' = c
                /\ next_id' = IF conn.existing = {} THEN next_id + 1 ELSE next_id
                /\ connections' = [connections EXCEPT
                       ![c].pc = "loop",
                       ![c].todo = Tail(conn.todo),
                       ![c].pending =
                           IF conn.existing = {}
                           THEN Visible(c) \cup
                                   {Inserted(next_id, conn.user_id, item.skill,
                                             item, conn.op)}
                           ELSE UpdateWhereId(Visible(c), FetchOne(conn.existing),
                                              item, conn.op)]
        /\ UNCHANGED <<user_skills_rows, notConcVars>>

\* steps 5 and 6 of extract_user_skills: aggregate, DELETE the owner's rows,
\* INSERT one row per aggregated skill, in one transaction
SaveAggregated(c) ==
    LET conn == connections[c]
    IN  /\ conn.op = "extract_user_skills"
        /\ conn.pc = "save"
        /\ CanWrite(c)
        /\ \E aggregated_skills \in aggregate_skills(conn.sources) :
              /\ connections' = [connections EXCEPT
                     ![c].pc = "loop",
                     ![c].pending =
                         InsertAggregated(
                             DeleteUserSkills(Visible(c), conn.user_id),
                             next_id, conn.user_id, aggregated_skills,
                             KeyOrder(conn.sources, {}))]
              /\ next_id' = next_id + Cardinality(DOMAIN aggregated_skills)
        /\ reserved_by' = c
        /\ UNCHANGED <<user_skills_rows, notConcVars>>

\* conn.commit() when the handler returns: the connection's rows become
\* the committed rows and the write lock is released
Commit(c) ==
    LET conn == connections[c]
    IN  /\ conn.pc = "loop"
        /\ conn.todo = <<>>
        /\ user_skills_rows' = Visible(c)
        /\ reserved_by' = IF reserved_by = c THEN NoConnection ELSE reserved_by
        /\ connections' = [connections EXCEPT ![c].pc = "done", ![c].pending = {}]
        /\ UNCHANGED <<next_id, notConcVars>>

\* the wait for the write lock times out: sqlite3.OperationalError, and
\* get_db rolls back a transaction that wrote nothing
BusyTimeout(c) ==
    LET conn == connections[c]
    IN  /\ conn.pc \in {"selected", "save"}
        /\ ~CanWrite(c)
        /\ conn.pc = "selected" =>
              (IF conn.existing = {} THEN TRUE
               ELSE ShouldUpdate(Head(conn.todo).proficiency,
                                 FetchOne(conn.existing).proficiency))
        /\ connections' = [connections EXCEPT ![c].pc = "failed"]
        /\ UNCHANGED <<user_skills_rows, next_id, reserved_by, notConcVars>>

ConcNext ==
    \E c \in ConnIds :
        \/ StartAnalysis(c)
        \/ StartExtract(c)
        \/ SelectExisting(c)
        \/ SaveSkill(c)
        \/ SaveAggregated(c)
        \/ Commit(c)
        \/ BusyTimeout(c)

ConcSpec == Init /\ [][ConcNext]_vars

\* every request has committed
AllCommitted == \A c \in ConnIds : connections[c].pc = "done"

\* C28: when two requests that write skills for the same owner run side by
\* side, each on its own connection with their select-then-insert steps
\* interleaved, the table holds no two rows with the same user_id and
\* skill_name after both have committed.
C28_OneRowPerSkillAfterCommits ==
    AllCommitted =>
        \A r1, r2 \in user_skills_rows :
            (r1.user_id = r2.user_id /\ r1.skill_name = r2.skill_name) => r1 = r2

\* the owner's rows after the last request
RowsAfter == RowsOf(user_skills_rows, db_call.user_id)

\* the last request served was this handler
LastCall(ops) == db_call.seq > 0 /\ db_call.op \in ops

\* the row holds what the aggregation gave for its skill
HoldsAggregate(r, skill_data) ==
    /\ r.proficiency = skill_data.proficiency
    /\ r.confidence = skill_data.confidence
    /\ r.source_count = skill_data.source_count
    /\ r.sources = skill_data.sources

\* C12: after extract_user_skills the owner's rows are one row per key of the
\* aggregation of that run, with its proficiency, confidence, source_count
\* and sources, and none of the rows the owner had before is left.
C12_ExtractReplacesRows ==
    LastCall({"extract_user_skills"}) =>
        /\ Cardinality(RowsAfter) = Cardinality(DOMAIN db_call.result)
        /\ \A r \in RowsAfter :
              /\ r.skill_name \in DOMAIN db_call.result
              /\ HoldsAggregate(r, db_call.result[r.skill_name])
        /\ \A skill \in DOMAIN db_call.result :
              \E r \in RowsAfter : r.skill_name = skill
        /\ RowsAfter \cap db_call.before = {}

\* the owner had a row written by analyze-github and a row for sql; the new
\* aggregation found python only
C12_Witness ==
    /\ LastCall({"extract_user_skills"})
    /\ \E r \in db_call.before : "github" \in Range(r.sources)
    /\ \E r \in db_call.before : r.skill_name = "sql"
    /\ DOMAIN db_call.result = {"python"}
    /\ \E r \in RowsAfter : r.skill_name = "python"

\* the run found no skill through the LLM: there is none, or it answered
\* with zero skills
WithoutLlmSkills == ~db_call.has_llm \/ DOMAIN db_call.llm_skills = {}

\* C25: extract_user_skills gives the resume to the LLM extractor when it is
\* available and to the NLP extractor otherwise, and falls back to the NLP
\* extractor when the LLM returns zero skills: whenever no LLM skills were
\* found and the NLP extractor finds a skill in the resume, a 'resume'
\* source with the NLP extractor's skills is passed to aggregate_skills.
C25_ResumeFallsBackToNlp ==
    LastCall({"extract_user_skills"}) =>
        /\ (db_call.has_llm /\ DOMAIN db_call.llm_skills # {}) =>
              \E i \in 1..Len(db_call.all_skill_sources) :
                 /\ db_call.all_skill_sources[i].source = "resume"
                 /\ db_call.all_skill_sources[i].skills = db_call.llm_skills
        /\ (WithoutLlmSkills /\ DOMAIN db_call.nlp_skills # {}) =>
              \E i \in 1..Len(db_call.all_skill_sources) :
                 /\ db_call.all_skill_sources[i].source = "resume"
                 /\ db_call.all_skill_sources[i].skills = db_call.nlp_skills

\* C13: the table never holds two rows with the same user_id and skill_name.
C13_OneRowPerSkill ==
    \A r1, r2 \in user_skills_rows :
        (r1.user_id = r2.user_id /\ r1.skill_name = r2.skill_name) => r1 = r2

\* after three requests one owner has a row from extract_user_skills that
\* analyze-github updated, next to a row analyze-linkedin inserted
C13_Witness ==
    /\ db_call.seq = MaxCalls
    /\ \E r1, r2 \in user_skills_rows :
          /\ r1.user_id = r2.user_id
          /\ r1.skill_name = "python"
          /\ "course:4" \in Range(r1.sources)
          /\ "github" \in Range(r1.sources)
          /\ r2.skill_name = "communication"
          /\ r2.sources = <<"linkedin">>

AnalysisHandlers ==
    {"analyze_user_github", "main.analyze_user_github", "analyze_user_linkedin"}

\* what the handler must have done for one found skill
UpsertedIfHigher(item) ==
    LET old == {r \in db_call.before : r.skill_name = item.skill}
        new == {r \in RowsAfter : r.skill_name = item.skill}
    IN  IF old = {}
        THEN /\ Cardinality(new) = 1
             /\ \A r \in new :
                   /\ r.proficiency = item.proficiency
                   /\ r.confidence = item.confidence
                   /\ r \notin db_call.before
        ELSE \A r \in old :
                IF item.proficiency > r.proficiency
                THEN \E r2 \in new :
                        /\ r2.id = r.id
                        /\ r2.proficiency = item.proficiency
                        /\ r2.confidence = item.confidence
                ELSE r \in RowsAfter

\* C14: analyze-github and analyze-linkedin insert a row for a found skill
\* the owner has no row for, overwrite proficiency and confidence of an
\* existing row only when the found proficiency is strictly greater, leave
\* the row unchanged otherwise, and so never lower a stored proficiency.
C14_UpsertOnlyIfHigher ==
    LastCall(AnalysisHandlers) =>
        /\ \A i \in 1..Len(db_call.result) : UpsertedIfHigher(db_call.result[i])
        /\ \A r \in db_call.before :
              \E r2 \in RowsAfter : r2.id = r.id /\ r2.proficiency >= r.proficiency

\* one request found a higher python, a lower sql and the owner had both
C14_Witness ==
    /\ LastCall(AnalysisHandlers)
    /\ \E i, j \in 1..Len(db_call.result) :
          /\ \E r \in db_call.before :
                /\ r.skill_name = db_call.result[i].skill
                /\ r.proficiency < db_call.result[i].proficiency
          /\ \E r \in db_call.before :
                /\ r.skill_name = db_call.result[j].skill
                /\ r.proficiency > db_call.result[j].proficiency
                /\ r \in RowsAfter
    /\ \E i \in 1..Len(db_call.result) :
          \A r \in db_call.before : r.skill_name # db_call.result[i].skill

\* the tag the handler of the last request adds to a row's sources
SourceTag == IF db_call.op = "analyze_user_linkedin" THEN "linkedin" ELSE "github"

\* C27: when analyze_user_github or analyze_user_linkedin raises the
\* proficiency of a skill the owner already has, the row's sources still hold
\* every entry they held before the call, the tag of the new source is
\* added, and source_count is the length of the list.
C27_SourcesKeptOnRaise ==
    LastCall(AnalysisHandlers) =>
        \A old \in db_call.before, new \in RowsAfter :
            (new.id = old.id /\ new.proficiency > old.proficiency) =>
                /\ Range(old.sources) \subseteq Range(new.sources)
                /\ SourceTag \in Range(new.sources)
                /\ new.source_count = Len(new.sources)

(***************************************************************************)
(* The producers of market requirement tables:                             *)
(* get_sample_market_requirements (src/app/routers/dependencies.py),       *)
(* JobSkillAnalyzer.aggregate_job_requirements and                         *)
(* LLMSkillExtractor.generate_market_requirements.  A table is the list of *)
(* the items of the dict, in the order of its keys.  A frequency of a      *)
(* produced table is in thousandths, as aggregate_job_requirements rounds  *)
(* it to three places; a proficiency is in hundredths.                     *)
(***************************************************************************)
\* the table for an AI or ML engineer
SampleAI ==
    <<[skill |-> "python", frequency |-> 950, requirement_level |-> "critical",
       avg_proficiency_needed |-> 85],
      [skill |-> "tensorflow", frequency |-> 750, requirement_level |-> "important",
       avg_proficiency_needed |-> 70],
      [skill |-> "pytorch", frequency |-> 800, requirement_level |-> "critical",
       avg_proficiency_needed |-> 75],
      [skill |-> "sql", frequency |-> 600, requirement_level |-> "important",
       avg_proficiency_needed |-> 65],
      [skill |-> "docker", frequency |-> 700, requirement_level |-> "important",
       avg_proficiency_needed |-> 60],
      [skill |-> "kubernetes", frequency |-> 550, requirement_level |-> "advanced",
       avg_proficiency_needed |-> 60],
      [skill |-> "aws", frequency |-> 650, requirement_level |-> "important",
       avg_proficiency_needed |-> 65],
      [skill |-> "transformers", frequency |-> 500, requirement_level |-> "emerging",
       avg_proficiency_needed |-> 70],
      [skill |-> "scikit-learn", frequency |-> 850, requirement_level |-> "critical",
       avg_proficiency_needed |-> 75],
      [skill |-> "nlp", frequency |-> 600, requirement_level |-> "important",
       avg_proficiency_needed |-> 70],
      [skill |-> "generative-ai", frequency |-> 450, requirement_level |-> "emerging",
       avg_proficiency_needed |-> 65],
      [skill |-> "langchain", frequency |-> 400, requirement_level |-> "emerging",
       avg_proficiency_needed |-> 60]>>

\* the table for a data scientist
SampleDataScientist ==
    <<[skill |-> "python", frequency |-> 950, requirement_level |-> "critical",
       avg_proficiency_needed |-> 80],
      [skill |-> "sql", frequency |-> 900, requirement_level |-> "critical",
       avg_proficiency_needed |-> 75],
      [skill |-> "machine-learning", frequency |-> 850, requirement_level |-> "critical",
       avg_proficiency_needed |-> 75],
      [skill |-> "statistics", frequency |-> 800, requirement_level |-> "critical",
       avg_proficiency_needed |-> 70],
      [skill |-> "pandas", frequency |-> 900, requirement_level |-> "critical",
       avg_proficiency_needed |-> 80],
      [skill |-> "tableau", frequency |-> 600, requirement_level |-> "important",
       avg_proficiency_needed |-> 65],
      [skill |-> "power-bi", frequency |-> 500, requirement_level |-> "important",
       avg_proficiency_needed |-> 65],
      [skill |-> "big-data", frequency |-> 400, requirement_level |-> "advanced",
       avg_proficiency_needed |-> 60]>>

\* the table for a full stack or web developer
SampleDeveloper ==
    <<[skill |-> "javascript", frequency |-> 950, requirement_level |-> "critical",
       avg_proficiency_needed |-> 80],
      [skill |-> "react", frequency |-> 800, requirement_level |-> "critical",
       avg_proficiency_needed |-> 75],
      [skill |-> "node.js", frequency |-> 700, requirement_level |-> "important",
       avg_proficiency_needed |-> 70],
      [skill |-> "typescript", frequency |-> 750, requirement_level |-> "important",
       avg_proficiency_needed |-> 70],
      [skill |-> "html", frequency |-> 900, requirement_level |-> "critical",
       avg_proficiency_needed |-> 85],
      [skill |-> "css", frequency |-> 900, requirement_level |-> "critical",
       avg_proficiency_needed |-> 80],
      [skill |-> "git", frequency |-> 850, requirement_level |-> "critical",
       avg_proficiency_needed |-> 70],
      [skill |-> "docker", frequency |-> 500, requirement_level |-> "advanced",
       avg_proficiency_needed |-> 60],
      [skill |-> "sql", frequency |-> 600, requirement_level |-> "important",
       avg_proficiency_needed |-> 65]>>

\* the default table
SampleDefault ==
    <<[skill |-> "python", frequency |-> 850, requirement_level |-> "critical",
       avg_proficiency_needed |-> 75],
      [skill |-> "sql", frequency |-> 800, requirement_level |-> "critical",
       avg_proficiency_needed |-> 70],
      [skill |-> "machine-learning", frequency |-> 650, requirement_level |-> "important",
       avg_proficiency_needed |-> 65],
      [skill |-> "data-analysis", frequency |-> 750, requirement_level |-> "critical",
       avg_proficiency_needed |-> 70],
      [skill |-> "tensorflow", frequency |-> 450, requirement_level |-> "important",
       avg_proficiency_needed |-> 60],
      [skill |-> "healthcare-data", frequency |-> 550, requirement_level |-> "important",
       avg_proficiency_needed |-> 65],
      [skill |-> "nlp", frequency |-> 400, requirement_level |-> "emerging",
       avg_proficiency_needed |-> 55],
      [skill |-> "pandas", frequency |-> 700, requirement_level |-> "critical",
       avg_proficiency_needed |-> 70],
      [skill |-> "tableau", frequency |-> 500, requirement_level |-> "important",
       avg_proficiency_needed |-> 60],
      [skill |-> "statistics", frequency |-> 600, requirement_level |-> "important",
       avg_proficiency_needed |-> 65]>>

\* 'needle in role_lower'
RoleHas(role_lower, needle) == Contains(role_lower, Spell[needle])

get_sample_market_requirements(role) ==
    LET role_lower == LowerText(role)
    IN  IF RoleHas(role_lower, "ai") \/ RoleHas(role_lower, "ml")
              \/ RoleHas(role_lower, "machine learning")
        THEN SampleAI
        ELSE IF RoleHas(role_lower, "data scientist")
                  \/ RoleHas(role_lower, "data science")
        THEN SampleDataScientist
        ELSE IF RoleHas(role_lower, "full stack") \/ RoleHas(role_lower, "web")
                  \/ RoleHas(role_lower, "developer")
        THEN SampleDeveloper
        ELSE SampleDefault

\* the roles a request names
Roles == {"AI Engineer", "Data Scientist", "Web Developer", "Healthcare Data Analyst"}

\* sorted(names): the names of the model in the order of Python's string
\* comparison
SortedNames ==
    <<".net", "aws", "c", "c#", "c++", "ci/cd", "dotnet", "golang", "javascript",
      "machine learning", "ml", "node", "node.js", "nodejs", "postgres",
      "postgresql", "problem solving", "python", "react", "scikit-learn",
      "sklearn", "sql">>

\* the keys of a dict that was filled from a sorted list
RECURSIVE SortedFrom(_, _)
SortedFrom(names, i) ==
    IF i > Len(SortedNames) THEN <<>>
    ELSE (IF SortedNames[i] \in names THEN <<SortedNames[i]>> ELSE <<>>)
            \o SortedFrom(names, i + 1)

\* skill_stats[skill] of the defaultdict for a skill met for the first time
NewStats(skill) ==
    [skill |-> skill, required_count |-> 0, preferred_count |-> 0,
     total_proficiency |-> 0, total_mentions |-> 0]

\* the three '+=' for one skill of one job
Counted(stats, kind, proficiency) ==
    [stats EXCEPT
        !.required_count = IF kind = "required" THEN @ + 1 ELSE @,
        !.preferred_count = IF kind = "preferred" THEN @ + 1 ELSE @,
        !.total_proficiency = @ + proficiency,
        !.total_mentions = @ + 1]

\* skill_stats, in the order of its keys, after one more mention
Mention(skill_stats, skill, kind, proficiency) ==
    IF \E i \in 1..Len(skill_stats) : skill_stats[i].skill = skill
    THEN AsSequence([i \in 1..Len(skill_stats) |->
                        IF skill_stats[i].skill = skill
                        THEN Counted(skill_stats[i], kind, proficiency)
                        ELSE skill_stats[i]])
    ELSE Append(skill_stats, Counted(NewStats(skill), kind, proficiency))

\* 'for skill, proficiency in job_skills[kind].items()'
RECURSIVE MentionAll(_, _, _, _)
MentionAll(skill_stats, names, found, kind) ==
    IF names = <<>> THEN skill_stats
    ELSE MentionAll(Mention(skill_stats, Head(names), kind, found[Head(names)]),
                    Tail(names), found, kind)

\* skill_stats after the required and the preferred skills of one job
CountJob(skill_stats, job_skills) ==
    MentionAll(MentionAll(skill_stats, SortedFrom(DOMAIN job_skills.required, 1),
                          job_skills.required, "required"),
               SortedFrom(DOMAIN job_skills.preferred, 1),
               job_skills.preferred, "preferred")

\* job.get('description', '')
DescriptionOf(job) ==
    IF "description" \in DOMAIN job THEN TextOf(job.description) ELSE <<>>

\* the values skill_stats can have after the loop over the jobs
RECURSIVE SkillStats(_, _, _)
SkillStats(e, job_list, outcomes) ==
    IF job_list = <<>> THEN outcomes
    ELSE SkillStats(e, Tail(job_list),
            IF DescriptionOf(Head(job_list)) = <<>> THEN outcomes
            ELSE {CountJob(skill_stats, job_skills) :
                    skill_stats \in outcomes,
                    job_skills \in extract_skills_from_job(e, DescriptionOf(Head(job_list)))})

\* 'Determine requirement level'
RequirementLevel(stats, total_jobs) ==
    IF 10 * stats.required_count >= 7 * total_jobs THEN "critical"
    ELSE IF 2 * stats.total_mentions >= total_jobs THEN "important"
    ELSE IF 4 * stats.total_mentions >= total_jobs THEN "emerging"
    ELSE "optional"

\* the values market_requirements[skill] can take
MarketEntries(stats, total_jobs) ==
    {[skill |-> stats.skill,
      frequency |-> frequency,
      requirement_level |-> RequirementLevel(stats, total_jobs),
      avg_proficiency_needed |-> avg_proficiency,
      required_count |-> stats.required_count,
      preferred_count |-> stats.preferred_count,
      total_mentions |-> stats.total_mentions] :
        frequency \in PyRound(1000 * stats.total_mentions, total_jobs),
        avg_proficiency \in PyRound(stats.total_proficiency, stats.total_mentions)}

\* market_requirements before the sort, for one value of skill_stats
RECURSIVE Unsorted(_, _)
Unsorted(skill_stats, total_jobs) ==
    IF skill_stats = <<>> THEN {<<>>}
    ELSE {<<entry>> \o rest :
            entry \in MarketEntries(Head(skill_stats), total_jobs),
            rest \in Unsorted(Tail(skill_stats), total_jobs)}

\* sorted(..., key=frequency, reverse=True): a stable sort
RECURSIVE InsertByFrequency(_, _)
InsertByFrequency(x, sorted) ==
    IF sorted = <<>> THEN <<x>>
    ELSE IF Head(sorted).frequency >= x.frequency
         THEN <<Head(sorted)>> \o InsertByFrequency(x, Tail(sorted))
         ELSE <<x>> \o sorted

\* the market requirements left in the order of skill_stats
KeepStatsOrder(list) == list

RECURSIVE SortByFrequency(_)
SortByFrequency(list) ==
    IF list = <<>> THEN <<>>
    ELSE InsertByFrequency(list[Len(list)],
                           SortByFrequency(SubSeq(list, 1, Len(list) - 1)))

\* 'if not description: continue' leaves skill_stats as it is, so the loop
\* comes to the jobs that have a description
HasDescription(job) == DescriptionOf(job) # <<>>

\* the tables aggregate_job_requirements can return
aggregate_job_requirements(e, job_list) ==
    IF job_list = <<>> THEN {<<>>}
    ELSE UNION {{SortByFrequency(table) : table \in Unsorted(skill_stats, Len(job_list))} :
                    skill_stats \in SkillStats(e, SelectSeq(job_list, HasDescription),
                                               {<<>>})}

\* what the model answers to the prompt of generate_market_requirements:
\* an API error, text without a JSON object, or a JSON object whose values
\* are dicts or strings
GeneratedLevels == {"critical", "optional", "advanced"}

\* a value of the object: a string, a dict with a frequency float() does
\* not accept, or a dict whose numbers are numbers
GeneratedValues ==
    {[dict |-> FALSE, numeric |-> FALSE], [dict |-> TRUE, numeric |-> FALSE]}
        \cup {[dict |-> TRUE, numeric |-> TRUE]
                    @@ Field("frequency", f) @@ Field("requirement_level", l)
                    @@ Field("avg_proficiency_needed", n) :
                f \in Present({50, 1500}) \cup {Missing},
                l \in Present(GeneratedLevels) \cup {Missing},
                n \in Present({5, 85}) \cup {Missing}}

GeneratedResponses ==
    {[kind |-> "error"], [kind |-> "prose"], [kind |-> "object", items |-> <<>>]}
        \cup {[kind |-> "object", items |-> <<[skill |-> s, data |-> d]>>] :
                s \in LLMSkillNames, d \in GeneratedValues}

\* 'Validate and clean': the entry for one item of the answer
CleanedRequirement(item) ==
    LET req_level == Get(item.data, "requirement_level", "important")
    IN  [skill |-> LLMName(item.skill),
         frequency |-> Max(100, Min(1000, Get(item.data, "frequency", 500))),
         requirement_level |->
             IF req_level \in {"critical", "important", "emerging"}
             THEN req_level ELSE "important",
         avg_proficiency_needed |->
             Max(10, Min(100, Get(item.data, "avg_proficiency_needed", 50)))]

\* cleaned_requirements after the items not yet visited; a later item with
\* the name of an earlier one overwrites its value
RECURSIVE CleanedRequirements(_, _)
CleanedRequirements(items, cleaned) ==
    IF items = <<>> THEN cleaned
    ELSE IF ~Head(items).data.dict THEN CleanedRequirements(Tail(items), cleaned)
    ELSE LET entry == CleanedRequirement(Head(items))
         IN  CleanedRequirements(Tail(items),
                IF \E i \in 1..Len(cleaned) : cleaned[i].skill = entry.skill
                THEN AsSequence([i \in 1..Len(cleaned) |->
                        IF cleaned[i].skill = entry.skill THEN entry ELSE cleaned[i]])
                ELSE Append(cleaned, entry))

\* float() raises on a value of the item, and the handler of the exception
\* returns {}
Raises(item) == item.data.dict /\ ~item.data.numeric

generate_market_requirements(client, response) ==
    IF ~client THEN <<>>
    ELSE IF response.kind # "object" THEN <<>>
    ELSE IF \E i \in 1..Len(response.items) : Raises(response.items[i]) THEN <<>>
    ELSE CleanedRequirements(response.items, <<>>)

\* the jobs of one request
MaxJobs == 5

\* a job dict: without a description, with an empty one, or with a text
JobValues ==
    {<<>>, [description |-> <<>>]}
        \cup {[description |-> <<phrase>>] :
                phrase \in {"required: expert sql bonus: sql", "sql bonus: aws",
                            "5+ years of python in production"}}

\* the fetcher returns one more job
AddJob ==
    /\ produced = NoResult
    /\ Len(fetched_jobs) < MaxJobs
    /\ \E job \in JobValues : fetched_jobs' = Append(fetched_jobs, job)
    /\ UNCHANGED <<produced, notMarketVars>>

\* the length of a list of search results of which all but one have no
\* description
LongList == 2001

\* the fetcher returns a long list in one piece: jobs whose details are
\* missing, and one job at the end
FetchLongList ==
    /\ produced = NoResult
    /\ fetched_jobs = <<>>
    /\ \E job \in JobValues :
          fetched_jobs' = AsSequence([i \in 1..LongList |->
                                        IF i = LongList THEN job ELSE <<>>])
    /\ UNCHANGED <<produced, notMarketVars>>

\* market_requirements = job_analyzer.aggregate_job_requirements(jobs)
AggregateJobRequirements ==
    /\ produced = NoResult
    /\ \E table \in aggregate_job_requirements(
                        NewExtractor(SKILL_SYNONYMS, NoFile), fetched_jobs) :
          produced' = [producer |-> "aggregate_job_requirements", table |-> table]
    /\ UNCHANGED <<fetched_jobs, notMarketVars>>

\* market_requirements = get_sample_market_requirements(target_role)
SampleMarketRequirements ==
    /\ produced = NoResult
    /\ fetched_jobs = <<>>
    /\ \E role \in Roles :
          produced' = [producer |-> "get_sample_market_requirements",
                       role |-> role,
                       table |-> get_sample_market_requirements(Spell[role])]
    /\ UNCHANGED <<fetched_jobs, notMarketVars>>

\* market_requirements = llm_skill_extractor.generate_market_requirements(...)
GenerateMarketRequirements ==
    /\ produced = NoResult
    /\ fetched_jobs = <<>>
    /\ \E client \in BOOLEAN, response \in GeneratedResponses :
          produced' = [producer |-> "generate_market_requirements",
                       response |-> response,
                       table |-> generate_market_requirements(client, response)]
    /\ UNCHANGED <<fetched_jobs, notMarketVars>>

MarketNext ==
    \/ AddJob
    \/ FetchLongList
    \/ AggregateJobRequirements
    \/ SampleMarketRequirements
    \/ GenerateMarketRequirements

MarketSpec == Init /\ [][MarketNext]_vars

\* the requirement levels of the produced table
ProducedLevels ==
    {produced.table[i].requirement_level : i \in 1..Len(produced.table)}

\* C19: every table a producer hands to analyze_gaps gives every skill a
\* requirement_level that is critical, important, emerging or optional.
C19_ProducedLevelsInEnum ==
    produced # NoResult => ProducedLevels \subseteq RequirementLevels

Next == GapNext \/ RankNext \/ ConcNext \/ AggNext \/ DeepNext \/ TextNext \/ EstimateNext \/ DbNext
            \/ MarketNext

Spec == Init /\ [][Next]_vars

(***************************************************************************)
(* Properties of analyze_gaps                                              *)
(***************************************************************************)
Analyzed == gap_result # NoResult

\* number of records of a list that name a skill
Occurrences(list, skill) ==
    Cardinality({i \in 1..Len(list) : list[i].skill = skill})

Listed(list, skill) == Occurrences(list, skill) > 0

\* the market entry of a skill
EntryOf(skill) ==
    market_requirements[CHOOSE i \in 1..Len(market_requirements) :
                            market_requirements[i].skill = skill]

\* the gap the claims speak of: need minus proficiency, an absent skill
\* counting 0
GapOf(skill) ==
    EntryOf(skill).avg_proficiency_needed
        - (IF skill \in DOMAIN user_skills THEN user_skills[skill].proficiency ELSE 0)

\* C1: every market skill is in at most one of critical_gaps, important_gaps,
\* emerging_gaps and strengths, and at most once in that list.
C1_AtMostOneBucket ==
    Analyzed =>
        \A s \in MarketSkills(market_requirements) :
            Occurrences(gap_result.critical_gaps, s)
              + Occurrences(gap_result.important_gaps, s)
              + Occurrences(gap_result.emerging_gaps, s)
              + Occurrences(gap_result.strengths, s) <= 1

\* an analysis that filled two different lists from a two-skill market
C1_Witness ==
    /\ Analyzed
    /\ Len(market_requirements) = 2
    /\ Len(gap_result.critical_gaps) = 1
    /\ Len(gap_result.strengths) = 1

\* C2: a market skill gets the priority of the first matching rule, in the
\* order CRITICAL (gap > 0.5, critical), IMPORTANT (gap > 0.3, critical or
\* important), EMERGING (emerging, gap > 0), STRENGTH (gap <= 0), with
\* gap = avg_proficiency_needed - user proficiency (0.0 when absent).
C2_FirstMatchingRule ==
    Analyzed =>
        \A s \in MarketSkills(market_requirements) :
            LET g == GapOf(s)
                l == EntryOf(s).requirement_level
                r1 == g > 50 /\ l = "critical"
                r2 == g > 30 /\ l \in {"critical", "important"}
                r3 == l = "emerging" /\ g > 0
                r4 == g <= 0
                Has(list, prio) ==
                    \E i \in 1..Len(list) :
                        /\ list[i].skill = s
                        /\ list[i].priority = prio
                        /\ list[i].gap = g
            IN  /\ r1 <=> Listed(gap_result.critical_gaps, s)
                /\ (~r1 /\ r2) <=> Listed(gap_result.important_gaps, s)
                /\ (~r1 /\ ~r2 /\ r3) <=> Listed(gap_result.emerging_gaps, s)
                /\ (~r1 /\ ~r2 /\ ~r3 /\ r4) <=> Listed(gap_result.strengths, s)
                /\ r1 => Has(gap_result.critical_gaps, "CRITICAL")
                /\ (~r1 /\ r2) => Has(gap_result.important_gaps, "IMPORTANT")
                /\ (~r1 /\ ~r2 /\ r3) => Has(gap_result.emerging_gaps, "EMERGING")
                /\ (~r1 /\ ~r2 /\ ~r3 /\ r4) => Has(gap_result.strengths, "STRENGTH")

\* a critical skill the user lacks next to a critical skill whose gap is
\* exactly 0.5, which only the second rule takes
C2_Witness ==
    /\ Analyzed
    /\ \E s \in MarketSkills(market_requirements) \ DOMAIN user_skills :
          Listed(gap_result.critical_gaps, s)
    /\ \E s \in MarketSkills(market_requirements) :
          /\ EntryOf(s).requirement_level = "critical"
          /\ GapOf(s) = 50
          /\ Listed(gap_result.important_gaps, s)

\* the place of a skill in the iteration of the market map
PlaceOf(skill) ==
    CHOOSE i \in 1..Len(market_requirements) : market_requirements[i].skill = skill

\* a list in non-increasing order of gap, equal gaps in market order
RankedByGap(list) ==
    \A i, j \in 1..Len(list) :
        i < j =>
            \/ list[i].gap > list[j].gap
            \/ /\ list[i].gap = list[j].gap
               /\ PlaceOf(list[i].skill) < PlaceOf(list[j].skill)

\* C21: critical_gaps, important_gaps and emerging_gaps are each in
\* non-increasing order of gap, records of equal gap keep the order in which
\* the market map iterates their skills, and summary.top_3_priorities names
\* the first three records of critical_gaps in that order.
C21_RankedByGap ==
    Analyzed =>
        /\ RankedByGap(gap_result.critical_gaps)
        /\ RankedByGap(gap_result.important_gaps)
        /\ RankedByGap(gap_result.emerging_gaps)
        /\ LET top == gap_result.summary.top_3_priorities
               crit == gap_result.critical_gaps
           IN  /\ Len(top) = Min(3, Len(crit))
               /\ \A i \in 1..Len(top) : top[i] = crit[i].skill

\* four critical gaps, two of them equal, the largest not the first skill of
\* the market, so that the sort moved a record and the fourth is cut off
C21_Witness ==
    /\ Analyzed
    /\ Len(gap_result.critical_gaps) = 4
    /\ gap_result.critical_gaps[1].skill # market_requirements[1].skill
    /\ gap_result.critical_gaps[1].gap = gap_result.critical_gaps[2].gap
    /\ gap_result.critical_gaps[2].gap > gap_result.critical_gaps[3].gap
    /\ Len(gap_result.summary.top_3_priorities) = 3

\* the user's skills that the market map names
OnMarket ==
    [s \in DOMAIN user_skills \cap MarketSkills(market_requirements) |-> user_skills[s]]

\* the skills the four lists and the priorities name
NamedSkills ==
    LET Names(list) == {list[i].skill : i \in 1..Len(list)}
        top == gap_result.summary.top_3_priorities
    IN  Names(gap_result.critical_gaps) \cup Names(gap_result.important_gaps)
          \cup Names(gap_result.emerging_gaps) \cup Names(gap_result.strengths)
          \cup {top[i] : i \in 1..Len(top)}

\* C22: skills of the user that the market map lacks do not influence the
\* analysis: the user's map cut down to the market's skills, on which every
\* map that agrees with it on the market's skills is cut down to the same
\* map, gives the same results, and every skill an output names is a key of
\* the market map.
C22_OffMarketSkillsIgnored ==
    Analyzed =>
        /\ analyze_gaps(OnMarket, market_requirements)
              = analyze_gaps(user_skills, market_requirements)
        /\ gap_result \in analyze_gaps(OnMarket, market_requirements)
        /\ NamedSkills \subseteq MarketSkills(market_requirements)

\* an analysis for a user with a skill on the market, a skill off the market
\* and a market skill the user lacks
C22_Witness ==
    /\ Analyzed
    /\ DOMAIN user_skills \ MarketSkills(market_requirements) # {}
    /\ DOMAIN user_skills \cap MarketSkills(market_requirements) # {}
    /\ MarketSkills(market_requirements) \ DOMAIN user_skills # {}
    /\ gap_result.summary.total_gaps > 0
    /\ gap_result.overall_readiness > 0

\* the market skills the claim speaks of: important with a gap in (0, 0.3],
\* or optional with a positive gap
SmallOrOptionalGaps ==
    {s \in MarketSkills(market_requirements) :
        \/ EntryOf(s).requirement_level = "important" /\ GapOf(s) > 0 /\ GapOf(s) <= 30
        \/ EntryOf(s).requirement_level = "optional" /\ GapOf(s) > 0}

\* C23: a market skill at level important with 0 < gap <= 0.3, or at level
\* optional with a positive gap, is in none of critical_gaps, important_gaps,
\* emerging_gaps and strengths, and none of the summary counts counts it.
C23_SmallGapsUnplaced ==
    Analyzed =>
        /\ \A s \in SmallOrOptionalGaps :
              /\ ~Listed(gap_result.critical_gaps, s)
              /\ ~Listed(gap_result.important_gaps, s)
              /\ ~Listed(gap_result.emerging_gaps, s)
              /\ ~Listed(gap_result.strengths, s)
        /\ LET sm == gap_result.summary
           IN  /\ sm.critical_gap_count = Len(gap_result.critical_gaps)
               /\ sm.important_gap_count = Len(gap_result.important_gaps)
               /\ sm.emerging_gap_count = Len(gap_result.emerging_gaps)
               /\ sm.strength_count = Len(gap_result.strengths)
               /\ sm.total_gaps = sm.critical_gap_count + sm.important_gap_count
                                    + sm.emerging_gap_count
               /\ sm.total_gaps + sm.strength_count
                     <= Len(market_requirements) - Cardinality(SmallOrOptionalGaps)

\* an analysis of an important skill with gap 0.3 next to an optional skill
\* the user lacks: both are left out and every count is 0
C23_Witness ==
    /\ Analyzed
    /\ \E s, t \in SmallOrOptionalGaps :
          /\ EntryOf(s).requirement_level = "important" /\ GapOf(s) = 30
          /\ EntryOf(t).requirement_level = "optional"
    /\ gap_result.summary.total_gaps = 0
    /\ gap_result.summary.strength_count = 0

\* every record of a gap list shows the frequency of its skill as a whole
\* percentage; frequencies are in hundredths, so round(frequency x 100) is
\* the frequency itself
ShowsRoundedFrequency(list) ==
    \A i \in 1..Len(list) : list[i].impact = EntryOf(list[i].skill).frequency

\* C24: for every record of critical_gaps, important_gaps and emerging_gaps
\* the percentage in its impact string is round(frequency x 100) of the
\* skill's market entry.
C24_ImpactIsRoundedFrequency ==
    Analyzed =>
        /\ ShowsRoundedFrequency(gap_result.critical_gaps)
        /\ ShowsRoundedFrequency(gap_result.important_gaps)
        /\ ShowsRoundedFrequency(gap_result.emerging_gaps)

\* the user's map with one proficiency raised, or one lacking skill added
RaisedProfiles ==
    UNION {{(s :> [proficiency |-> p]) @@ user_skills :
                p \in {q \in UserProficiencyValues : q > UserProf(user_skills, s)}} :
           s \in GapSkills}

\* readiness r is not above the readiness of a raised profile. Where the
\* raise leaves the exact quotient unchanged (the proficiency was at the cap,
\* or the skill has weight 0 or is not on the market) the code repeats the
\* same float computation, so the same values are possible; otherwise every
\* value of the raised profile is at least r.
NotLoweredBy(raised, r) ==
    LET after == _calculate_readiness(raised, market_requirements)
    IN  \/ after = _calculate_readiness(user_skills, market_requirements)
        \/ \A b \in after : r <= b

\* C26: for a fixed market map, raising the proficiency of one user skill,
\* or adding a skill the user lacked, never lowers overall_readiness, and
\* overall_readiness lies in [0, 100].
C26_ReadinessMonotone ==
    Analyzed =>
        /\ gap_result.overall_readiness >= 0
        /\ gap_result.overall_readiness <= 1000
        /\ \A raised \in RaisedProfiles :
              NotLoweredBy(raised, gap_result.overall_readiness)

\* an analysis with readiness strictly between 0 and 100 for a user who is
\* above the need of one market skill and below the need of another, so
\* that one raise changes nothing and another raises the readiness
C26_Witness ==
    /\ Analyzed
    /\ gap_result.overall_readiness > 0
    /\ gap_result.overall_readiness < 1000
    /\ \E s \in MarketSkills(market_requirements) \cap DOMAIN user_skills :
          /\ EntryOf(s).frequency > 0
          /\ GapOf(s) < 0
          /\ UserProf(user_skills, s) < 90
    /\ \E raised \in RaisedProfiles :
          \A b \in _calculate_readiness(raised, market_requirements) :
              b > gap_result.overall_readiness

\* the user meets every market requirement
MeetsAll ==
    \A s \in MarketSkills(market_requirements) :
        /\ s \in DOMAIN user_skills
        /\ user_skills[s].proficiency >= EntryOf(s).avg_proficiency_needed

SomeFrequency ==
    \E i \in 1..Len(market_requirements) : market_requirements[i].frequency > 0

\* C3 as stated: whenever the user's proficiency is at least
\* avg_proficiency_needed for every market skill, overall_readiness is 100.0.
C3_Original ==
    (Analyzed /\ MeetsAll) => gap_result.overall_readiness = 1000

\* C3 amended: when the user's proficiency is at least avg_proficiency_needed
\* for every market skill and some market skill has a frequency above 0,
\* overall_readiness is 100.0; with no market skill of positive frequency
\* (the empty market included) it is 0.0.
C3_ReadinessBoundary ==
    (Analyzed /\ MeetsAll) =>
        gap_result.overall_readiness = (IF SomeFrequency THEN 1000 ELSE 0)

\* a user above the requirement of both skills of a market with weight
C3_Witness ==
    /\ Analyzed
    /\ MeetsAll
    /\ SomeFrequency
    /\ Len(market_requirements) = 2
    /\ \E s \in MarketSkills(market_requirements) : GapOf(s) < 0
    /\ gap_result.overall_readiness = 1000

\* C4: with an empty market, analyze_gaps returns four empty lists and
\* overall_readiness 0.0, whatever the user's skills.
C4_EmptyMarket ==
    (Analyzed /\ market_requirements = <<>>) =>
        /\ gap_result.critical_gaps = <<>>
        /\ gap_result.important_gaps = <<>>
        /\ gap_result.emerging_gaps = <<>>
        /\ gap_result.strengths = <<>>
        /\ gap_result.overall_readiness = 0

\* an analysis of a user with skills against the empty market
C4_Witness ==
    /\ Analyzed
    /\ market_requirements = <<>>
    /\ user_skills # <<>>

\* the multiplier table of the claim, in tenths
ClaimMultiplier(level) ==
    CASE level = "critical" -> 20
      [] level = "important" -> 15
      [] level = "emerging" -> 12
      [] OTHER -> 10

ClaimWeight(i) ==
    market_requirements[i].frequency
        * ClaimMultiplier(market_requirements[i].requirement_level)

\* weight x achievement of the i-th market skill, as a fraction
ClaimTerm(i) ==
    LET m == market_requirements[i]
        u == IF m.skill \in DOMAIN user_skills
             THEN user_skills[m.skill].proficiency ELSE 0
    IN  IF m.avg_proficiency_needed = 0 THEN <<ClaimWeight(i), 1>>
        ELSE Frac(ClaimWeight(i) * Min(u, m.avg_proficiency_needed),
                  m.avg_proficiency_needed)

RECURSIVE ClaimAchieved(_)
ClaimAchieved(n) ==
    IF n = 0 THEN <<0, 1>> ELSE FracAdd(ClaimTerm(n), ClaimAchieved(n - 1))

RECURSIVE ClaimTotal(_)
ClaimTotal(n) == IF n = 0 THEN 0 ELSE ClaimWeight(n) + ClaimTotal(n - 1)

\* r tenths of a percent is 100 x num/den rounded to one decimal: r is
\* within half a tenth of the exact value
IsRoundedPercent(r, num, den) ==
    LET x == Frac(num, den)
    IN  2 * Abs(r * x[2] - 1000 * x[1]) <= x[2]

\* C5 as stated: for every non-empty market, overall_readiness is the
\* quotient 100 x sum(weight x achievement) / sum(weight) rounded to one
\* decimal; the quotient exists only when sum(weight) is not 0.
C5_Original ==
    (Analyzed /\ market_requirements # <<>>) =>
        LET n == Len(market_requirements)
        IN  /\ ClaimTotal(n) # 0
            /\ IsRoundedPercent(gap_result.overall_readiness,
                                ClaimAchieved(n)[1],
                                ClaimAchieved(n)[2] * ClaimTotal(n))

\* C5 amended: for every non-empty market whose weights sum to more than 0,
\* overall_readiness is 100 x sum(weight x achievement) / sum(weight) rounded
\* to one decimal; when the weights sum to 0 it is 0.0.
C5_ReadinessFormula ==
    (Analyzed /\ market_requirements # <<>>) =>
        LET n == Len(market_requirements)
        IN  IF ClaimTotal(n) > 0
            THEN IsRoundedPercent(gap_result.overall_readiness,
                                  ClaimAchieved(n)[1],
                                  ClaimAchieved(n)[2] * ClaimTotal(n))
            ELSE gap_result.overall_readiness = 0

\* a market of an emerging and a critical skill, one of them absent from
\* the user's skills and one partly met, with a readiness that needed rounding
C5_Witness ==
    /\ Analyzed
    /\ Len(market_requirements) = 2
    /\ \E i, j \in 1..2 :
          /\ market_requirements[i].requirement_level = "emerging"
          /\ market_requirements[j].requirement_level = "critical"
          /\ market_requirements[i].frequency > 0
          /\ market_requirements[j].frequency > 0
          /\ market_requirements[i].skill \notin DOMAIN user_skills
          /\ market_requirements[j].skill \in DOMAIN user_skills
          /\ GapOf(market_requirements[j].skill) > 0
    /\ gap_result.overall_readiness \in 1..999
    /\ LET n == Len(market_requirements)
           x == Frac(ClaimAchieved(n)[1], ClaimAchieved(n)[2] * ClaimTotal(n))
       IN  (1000 * x[1]) % x[2] # 0

(***************************************************************************)
(* Properties of aggregate_skills                                          *)
(***************************************************************************)
Aggregated == aggregated # NoResult

\* the i-th source observes the skill: its skills map gives the skill a
\* (proficiency, confidence) pair, as a tuple or as a dict
Observes(i, skill) ==
    LET source_data == skill_sources[i]
    IN  /\ "skills" \in DOMAIN source_data
        /\ skill \in DOMAIN source_data.skills
        /\ source_data.skills[skill].shape \in {"tuple", "dict"}

Observers(skill) == {i \in 1..Len(skill_sources) : Observes(i, skill)}

KindOf(i) ==
    IF "source" \in DOMAIN skill_sources[i] THEN skill_sources[i].source ELSE "unknown"

\* the proficiency and the confidence the i-th source gives the skill
GivenProficiency(i, skill) ==
    LET v == skill_sources[i].skills[skill]
    IN  IF "proficiency" \in v.keys THEN v.proficiency ELSE 50

GivenConfidence(i, skill) ==
    LET v == skill_sources[i].skills[skill]
    IN  IF "confidence" \in v.keys THEN v.confidence ELSE 50

\* the weight table of the claims, in tenths
ClaimSourceWeight(kind) ==
    CASE kind = "experience" -> 20
      [] kind = "project" -> 15
      [] kind = "resume" -> 13
      [] kind = "certification" -> 12
      [] kind = "course" -> 10
      [] OTHER -> 10

RECURSIVE SumOver(_, _)
SumOver(indices, f) ==
    IF indices = {} THEN 0
    ELSE LET i == CHOOSE x \in indices : TRUE
         IN  f[i] + SumOver(indices \ {i}, f)

\* r is the fraction x rounded to an integer: within one half of it
IsRounded(r, x) == 2 * Abs(r * x[2] - x[1]) <= x[2]

\* the skill was observed by courses only before the last source, and the
\* last source is an experience that observes it
CourseThenExperience(skill) ==
    LET n == Len(skill_sources)
    IN  /\ n >= 2
        /\ Observes(n, skill)
        /\ KindOf(n) = "experience"
        /\ Observers(skill) \ {n} # {}
        /\ \A i \in Observers(skill) \ {n} : KindOf(i) = "course"

\* the outputs of aggregate_skills for the list without its last source
BeforeLast == aggregate_skills(SubSeq(skill_sources, 1, Len(skill_sources) - 1))

\* the experience proficiency is at least the average course proficiency
ExperienceNotBelowCourses(skill) ==
    LET n == Len(skill_sources)
        courses == Observers(skill) \ {n}
        p == [i \in courses |-> GivenProficiency(i, skill)]
    IN  GivenProficiency(n, skill) * Cardinality(courses) >= SumOver(courses, p)

C7_AggregateFormula ==
    Aggregated =>
        \A skill \in AggSkills :
            Observers(skill) # {} =>
                LET obs == Observers(skill)
                    n == Cardinality(obs)
                    w == [i \in obs |-> ClaimSourceWeight(KindOf(i))]
                    pw == [i \in obs |-> GivenProficiency(i, skill) * w[i]]
                    c == [i \in obs |-> GivenConfidence(i, skill)]
                    avg == Frac(SumOver(obs, pw), SumOver(obs, w))
                    withBonus == FracAdd(avg, <<Min(5 * n, 15), 1>>)
                    prof == IF withBonus[1] > 100 * withBonus[2]
                            THEN <<100, 1>> ELSE withBonus
                    mean == Frac(SumOver(obs, c), n)
                    withCount == FracAdd(mean, <<Min(10 * n, 20), 1>>)
                    conf == IF withCount[1] > 95 * withCount[2]
                            THEN <<95, 1>> ELSE withCount
                IN  /\ skill \in DOMAIN aggregated
                    /\ IsRounded(aggregated[skill].proficiency, prof)
                    /\ IsRounded(aggregated[skill].confidence, conf)

\* four observations, a resume, a certification and a project among them,
\* with neither cap reached by the proficiency
C7_Witness ==
    /\ Aggregated
    /\ Cardinality(Observers("python")) = 4
    /\ {"resume", "certification", "project"}
          \subseteq {KindOf(i) : i \in Observers("python")}
    /\ aggregated["python"].proficiency < 100
    /\ aggregated["python"].source_count = 4

\* the "{kind}:{id}" string of each source dict of the model
ExpectedLabel(source_data) ==
    CASE "source" \notin DOMAIN source_data -> "unknown:0"
      [] OTHER ->
         CASE source_data.source = "course" /\ source_data.source_id = 4 -> "course:4"
           [] source_data.source = "experience" /\ source_data.source_id = 1 -> "experience:1"
           [] source_data.source = "github" /\ source_data.source_id = 6 -> "github:6"
           [] OTHER -> "?"

\* the j-th source, in list order, that observes the skill
NthObserver(skill, j) ==
    CHOOSE i \in Observers(skill) :
        Cardinality({k \in Observers(skill) : k <= i}) = j

\* C9: the output has exactly the skills with at least one observation; for
\* each, source_count is the number of its observations and sources lists
\* their "{kind}:{id}" strings in the order of the sources, so
\* len(sources) = source_count >= 1.
C9_ObservedSkillsOnly ==
    Aggregated =>
        /\ DOMAIN aggregated = {skill \in AggSkills : Observers(skill) # {}}
        /\ \A skill \in DOMAIN aggregated :
              LET a == aggregated[skill]
              IN  /\ a.source_count = Cardinality(Observers(skill))
                  /\ Len(a.sources) = a.source_count
                  /\ a.source_count >= 1
                  /\ \A j \in 1..a.source_count :
                        a.sources[j] = ExpectedLabel(skill_sources[NthObserver(skill, j)])

\* a list with a source whose skills map is empty and two observations of
\* python whose labels are not in sorted order; sql is never observed
C9_Witness ==
    /\ Aggregated
    /\ Len(skill_sources) = 3
    /\ \E i \in 1..3 :
          /\ "skills" \in DOMAIN skill_sources[i]
          /\ skill_sources[i].skills = <<>>
    /\ "python" \in DOMAIN aggregated
    /\ aggregated["python"].sources = <<"github:6", "course:4">>
    /\ "sql" \notin DOMAIN aggregated

\* C10: every proficiency and every confidence of the output lies in [0,1],
\* whatever the observations carry.
C10_Clamped ==
    Aggregated =>
        \A skill \in DOMAIN aggregated :
            /\ aggregated[skill].proficiency >= 0
            /\ aggregated[skill].proficiency <= 100
            /\ aggregated[skill].confidence >= 0
            /\ aggregated[skill].confidence <= 100

\* the list with its sources in another order
Permuted(sources, order) == AsSequence([i \in 1..Len(sources) |-> sources[order[i]]])

\* the two maps have the same skills with the same proficiency, confidence
\* and source_count
SameButSources(a, b) ==
    /\ DOMAIN a = DOMAIN b
    /\ \A skill \in DOMAIN a :
          /\ a[skill].proficiency = b[skill].proficiency
          /\ a[skill].confidence = b[skill].confidence
          /\ a[skill].source_count = b[skill].source_count

\* the float sums over the two lists add the same numbers in the same
\* order, or differ in the order of the first two only (a + b = b + a)
SameSummation(sources, permuted) ==
    \/ permuted = sources
    \/ /\ Len(sources) >= 2
       /\ permuted[1] = sources[2]
       /\ permuted[2] = sources[1]
       /\ \A i \in 3..Len(sources) : permuted[i] = sources[i]

\* C20: aggregate_skills returns for every permutation of the source list
\* the same skills with the same proficiency, confidence and source_count
\* as for the list itself.  The weighted mean is a float sum taken in list
\* order and round() sits on it, so at a decimal tie the order of the sum
\* decides the second place; the permutations that leave the sum as it is
\* are left out.
C20_OrderIndependent ==
    Aggregated =>
        \A order \in Permutations(1..Len(skill_sources)) :
            ~SameSummation(skill_sources, Permuted(skill_sources, order)) =>
                \A other \in aggregate_skills(Permuted(skill_sources, order)) :
                    SameButSources(aggregated, other)

\* the (proficiency, confidence) pairs calculate_proficiency_from_course
\* gives for the course records of the model
CourseEstimates ==
    {calculate_proficiency_from_course(course_data) : course_data \in CourseRecords}

\* every observation of the skill is a course with a pair the course
\* estimator produces
OnlyCourses(skill) ==
    \A i \in Observers(skill) :
        /\ KindOf(i) = "course"
        /\ LET v == skill_sources[i].skills[skill]
           IN  /\ v.shape = "tuple"
               /\ <<v.proficiency, v.confidence>> \in CourseEstimates

\* C29: a skill all of whose observations are courses with proficiencies
\* produced by calculate_proficiency_from_course gets a proficiency of at
\* most 0.70 from aggregate_skills, for any number of courses.
C29_CoursesStayUnderCap ==
    Aggregated =>
        \A skill \in DOMAIN aggregated :
            OnlyCourses(skill) => aggregated[skill].proficiency <= 70

\* the table aggregate_job_requirements returned for the fetched jobs
JobsAggregated ==
    produced # NoResult /\ produced.producer = "aggregate_job_requirements"

\* what the claim and its amendment share: the counts add up, a job counts a
\* skill once, no frequency is above 1 (1000 thousandths), and the entries
\* are in non-increasing order of frequency
CountsAndOrder ==
    /\ \A i \in 1..Len(produced.table) :
          LET entry == produced.table[i]
          IN  /\ entry.total_mentions = entry.required_count + entry.preferred_count
              /\ entry.total_mentions >= 1
              /\ entry.total_mentions <= Len(fetched_jobs)
              /\ entry.frequency <= 1000
    /\ \A i, j \in 1..Len(produced.table) :
          i < j => produced.table[i].frequency >= produced.table[j].frequency

\* the statement as the claim has it: every frequency is above 0
C30_Original ==
    JobsAggregated =>
        /\ CountsAndOrder
        /\ \A i \in 1..Len(produced.table) : produced.table[i].frequency > 0

\* C30: every entry aggregate_job_requirements returns has total_mentions =
\* required_count + preferred_count with 1 <= total_mentions <= number of
\* jobs, a frequency in [0, 1] that is above 0 whenever total_mentions /
\* number of jobs is above 0.0005 (the frequency is rounded to three
\* decimals), and the entries are in non-increasing order of frequency.
C30_CountsAndFrequencies ==
    JobsAggregated =>
        /\ CountsAndOrder
        /\ \A i \in 1..Len(produced.table) :
              LET entry == produced.table[i]
              IN  /\ entry.frequency >= 0
                  /\ 2000 * entry.total_mentions > Len(fetched_jobs)
                        => entry.frequency > 0

\* five jobs, the first about python, one without a description and one
\* naming sql in its required and in its bonus section, give a table in
\* which sql, mentioned later and more often, comes first and was counted
\* once for each job that names it; aws is preferred only
C30_Witness ==
    /\ JobsAggregated
    /\ Len(fetched_jobs) = MaxJobs
    /\ \E i \in 1..Len(fetched_jobs) : ~HasDescription(fetched_jobs[i])
    /\ fetched_jobs[1] = [description |-> <<"5+ years of python in production">>]
    /\ produced.table[1].skill = "sql"
    /\ produced.table[1].total_mentions
          = Cardinality({i \in 1..Len(fetched_jobs) :
                fetched_jobs[i] = [description |-> <<"required: expert sql bonus: sql">>]})
    /\ produced.table[1].frequency > produced.table[2].frequency
    /\ \E i \in 1..Len(produced.table) :
          /\ produced.table[i].required_count = 0
          /\ produced.table[i].preferred_count >= 1

====
